---- MODULE Spec2Model ----
(***************************************************************************)
(* A model of streamlit-ollama-chat: the relational store (lib/storage.py), *)
(* the streaming chat client (lib/ollama_api.py) and the chat page's       *)
(* send / edit / regenerate state machine (app.py).                        *)
(*                                                                         *)
(* Specifications                                                          *)
(*   SpecStream  one chat_stream call: POST, capability retry, line loop   *)
(*   SpecStore   the store's prompt / assignment / conversation API        *)
(*   SpecChat    one browser session driving the chat page                 *)
(*   SpecConc    two sessions interleaved at SQL-statement granularity     *)
(*   SpecAttach  add_attachment / list_attachments_for_message_ids         *)
(*   SpecSession create_session / get_session / delete_session and a clock *)
(*   SpecTouch   touch_conversation with passed and omitted arguments      *)
(*   SpecBoot    two init_db runs interleaved at SQL-statement granularity *)
(*   SpecPayload the chat page and the prompt editor on stored histories   *)
(*   SpecList    list_conversations_admin on every table of three rows     *)
(*   SpecUsers   first-run bootstrap, sign-in and the admin's Users tab     *)
(*   SpecLoad    _load_conversation_into_state on known and unknown ids     *)
(*   SpecSend    two sessions sending, interleaved between SQL statements   *)
(*   SpecIds     add_message and delete_messages_after on two conversations *)
(*   SpecAssign  create_conversation with and without assignment arguments  *)
(***************************************************************************)
EXTENDS Integers, Sequences, FiniteSets, TLC

VARIABLES
    env,    \* module-level configuration: _USE_PG, USE_SUPABASE_STORAGE, cached model list
    db,     \* the relational store: settings, assignments, conversations, messages, attachments,
            \* sessions, and the clock _now_iso() reads
    ss,     \* st.session_state of one browser session
    run,    \* position and locals of the script run of that session
    cs,     \* one chat_stream call: inputs, requests sent, responses, lines read, chunks yielded
    procs,  \* SpecConc: position and locals of each concurrent session; the other
            \* store specifications: the last call, its inputs and its result
    hist    \* history: what create_conversation stored, what an edit started from,
            \* whether an attachment was written for a message already deleted

vars == <<env, db, ss, run, cs, procs, hist>>

(***************************************************************************)
(* Bounds of the model.                                                    *)
(***************************************************************************)
MaxLines == 3        \* response lines read by one chat_stream call
MaxStoreConvs == 1   \* conversations created in SpecStore
MaxAssignments == 2  \* assignments in SpecStore
MaxChatConvs == 2    \* conversations created in SpecChat
MaxMsgId == 3        \* largest message id handed out in SpecChat
MaxChunks == 2       \* chunks the page receives from one stream
MaxConcMsgId == 3    \* largest message id handed out in SpecConc
MaxConcAttId == 2    \* largest attachment id handed out in SpecConc
MaxAttachId == 3    \* attachment ids handed out in SpecAttach
MaxTokens == 2      \* sessions created in SpecSession
MaxNow == 13        \* hours the clock of SpecSession runs
MaxClock == 2       \* ticks of the clock in SpecTouch
MaxHistory == 4     \* messages of the conversation SpecPayload finds stored
MaxPayloadMsgId == 5  \* largest message id handed out in SpecPayload

(***************************************************************************)
(* Values.  Python None is None for strings and ids 0 for integer keys;    *)
(* texts that the code strips or concatenates are sequences of characters, *)
(* with NullText the None of such a column.                                *)
(***************************************************************************)
None == "None"
NullText == <<"None">>
NoId == 0

Max(S) == IF S = {} THEN 0 ELSE CHOOSE x \in S : \A y \in S : y <= x

RECURSIVE SeqById(_)
SeqById(S) ==
    IF S = {} THEN <<>>
    ELSE LET m == CHOOSE r \in S : \A q \in S : r.id <= q.id
         IN  <<m>> \o SeqById(S \ {m})

(***************************************************************************)
(* lib/ollama_api.py: chat_stream                                          *)
(***************************************************************************)
Hosts == {"http://h"}
ApiKeys == {None, "k"}
Models == {"m1"}
ThinkValues == {None, "high"}
OptionValues == {None, "opts"}
Statuses == {200, 400, 404, 422, 500}
ContentTexts == {"", "x", "y"}
ThinkingTexts == {"", "t"}

\* A response: its status and whether its body mentions the think field.
Responses == [status : Statuses, mentions_think : BOOLEAN]

\* One line of the response body as iter_lines hands it over: blank, not JSON,
\* JSON that is not an object, or a JSON object with or without a message.
BlankLine == [kind |-> "blank", has_message |-> FALSE, content |-> "", thinking |-> ""]
GarbageLine == [kind |-> "garbage", has_message |-> FALSE, content |-> "", thinking |-> ""]
ScalarLine == [kind |-> "scalar", has_message |-> FALSE, content |-> "", thinking |-> ""]
ObjectLines ==
    {[kind |-> "object", has_message |-> FALSE, content |-> "", thinking |-> ""]}
    \cup [kind : {"object"}, has_message : {TRUE}, content : ContentTexts,
          thinking : ThinkingTexts]
Lines == {BlankLine, GarbageLine, ScalarLine} \cup ObjectLines

_base_api_url(host) == <<host, "/api">>

_headers(api_key) ==
    [content_type |-> "application/json",
     authorization |-> IF api_key # None THEN <<"Bearer", api_key>> ELSE <<>>]

\* payload = {"model", "messages", "stream"} plus options and think when truthy.
chat_payload(model, messages, stream, options, think) ==
    [model |-> model, messages |-> messages, stream |-> stream,
     options |-> options, think |-> think]

\* requests.post(url, headers=_headers(api_key), data=json.dumps(payload), ...)
_do_post(c, payload) ==
    [url |-> _base_api_url(c.host) \o <<"/chat">>,
     headers |-> _headers(c.api_key),
     body |-> payload,
     stream |-> c.stream]

\* Variant: any error status is retried.
should_retry_any_error(status, think, mentions_think) ==
    status >= 400 /\ think # None

\* r.status_code in (400, 422) and think; then: ("think" in body) or True
should_retry(status, think, mentions_think) ==
    /\ status \in {400, 422}
    /\ think # None
    /\ (mentions_think \/ TRUE)

\* Variant: the retry sends the payload as it was.
retry_payload_keeps_think(payload) == payload

\* payload.pop("think", None)
retry_payload(payload) == [payload EXCEPT !.think = None]

\* Variant: a line without content yields its thinking fragment.
chunk_of_or_thinking(line) ==
    IF line.kind # "object" \/ ~line.has_message THEN ""
    ELSE IF line.content # "" THEN line.content ELSE line.thinking

\* chunk = (part.get("message") or {}).get("content", "")
chunk_of(line) ==
    IF line.has_message THEN line.content ELSE ""

\* The loop body: blank lines and lines json.loads rejects are skipped, an
\* empty chunk is not yielded.
yield_line(yielded, line) ==
    IF line.kind = "blank" THEN yielded
    ELSE IF line.kind = "garbage" THEN yielded
    ELSE IF chunk_of(line) # "" THEN Append(yielded, chunk_of(line))
    ELSE yielded

CsIdle ==
    [pc |-> "off", host |-> "http://h", api_key |-> None, model |-> "m1",
     messages |-> "payload", stream |-> TRUE, options |-> None, think |-> None,
     payload |-> chat_payload("m1", "payload", TRUE, None, None),
     posts |-> <<>>, resps |-> <<>>, received |-> <<>>, yielded |-> <<>>,
     error |-> "none"]

CsStart(host, api_key, model, stream, options, think) ==
    [CsIdle EXCEPT !.pc = "start", !.host = host, !.api_key = api_key,
                   !.model = model, !.stream = stream, !.options = options,
                   !.think = think,
                   !.payload = chat_payload(model, "payload", stream, options, think)]

\* r = _do_post(payload): a response arrives, or requests.post raises.
chat_stream_post ==
    /\ cs.pc = "start"
    /\ \/ \E r \in Responses :
            cs' = [cs EXCEPT !.posts = Append(@, _do_post(cs, cs.payload)),
                             !.resps = Append(@, r),
                             !.pc = "responded"]
       \/ cs' = [cs EXCEPT !.posts = Append(@, _do_post(cs, cs.payload)),
                           !.pc = "raised", !.error = "connection"]
    /\ UNCHANGED <<env, db, ss, run, procs, hist>>

\* The retry branch: r.close(); payload.pop("think"); r = _do_post(payload)
chat_stream_retry ==
    /\ cs.pc = "responded"
    /\ Len(cs.posts) = 1
    /\ should_retry(cs.resps[1].status, cs.think, cs.resps[1].mentions_think)
    /\ LET p == retry_payload(cs.payload)
       IN  \/ \E r \in Responses :
                cs' = [cs EXCEPT !.payload = p,
                                 !.posts = Append(@, _do_post(cs, p)),
                                 !.resps = Append(@, r)]
           \/ cs' = [cs EXCEPT !.payload = p,
                               !.posts = Append(@, _do_post(cs, p)),
                               !.pc = "raised", !.error = "connection"]
    /\ UNCHANGED <<env, db, ss, run, procs, hist>>

\* if r.status_code >= 400: _raise_with_details; if not stream: yield the one
\* message's content and return; else enter the line loop.
chat_stream_check ==
    /\ cs.pc = "responded"
    /\ ~(Len(cs.posts) = 1 /\
         should_retry(cs.resps[1].status, cs.think, cs.resps[1].mentions_think))
    /\ LET r == cs.resps[Len(cs.resps)]
       IN  IF r.status >= 400
           THEN cs' = [cs EXCEPT !.pc = "raised", !.error = "http"]
           ELSE IF ~cs.stream
           THEN \E obj \in ObjectLines :
                    cs' = [cs EXCEPT !.received = <<obj>>,
                                     !.yielded = <<chunk_of(obj)>>,
                                     !.pc = "done"]
           ELSE cs' = [cs EXCEPT !.pc = "reading"]
    /\ UNCHANGED <<env, db, ss, run, procs, hist>>

\* One iteration of: for line in r.iter_lines(decode_unicode=True).  part.get on
\* JSON that is not an object raises AttributeError out of the generator.
chat_stream_line ==
    /\ cs.pc = "reading"
    /\ Len(cs.received) < MaxLines
    /\ \E line \in Lines :
           cs' = IF line.kind = "scalar"
                 THEN [cs EXCEPT !.received = Append(@, line),
                                 !.pc = "raised", !.error = "attribute"]
                 ELSE [cs EXCEPT !.received = Append(@, line),
                                 !.yielded = yield_line(@, line)]
    /\ UNCHANGED <<env, db, ss, run, procs, hist>>

\* iter_lines is exhausted: the generator returns.
chat_stream_eof ==
    /\ cs.pc = "reading"
    /\ cs' = [cs EXCEPT !.pc = "done"]
    /\ UNCHANGED <<env, db, ss, run, procs, hist>>

\* The connection breaks while reading: iter_lines raises.
chat_stream_broken ==
    /\ cs.pc = "reading"
    /\ cs' = [cs EXCEPT !.pc = "raised", !.error = "connection"]
    /\ UNCHANGED <<env, db, ss, run, procs, hist>>

(***************************************************************************)
(* lib/storage.py: the relational store.  Every operation is an operator   *)
(* from a store to the store it leaves; _exec commits each statement.      *)
(***************************************************************************)
AssignmentNames == {"Assignment 1", "Assignment 2"}
PromptTexts == {<<>>, <<"Q">>}
DEFAULT_BASE_PROMPT == <<"D">>
Titles == {"T"}

EmptyDb ==
    [settings |-> [base_system_prompt |-> NullText,
                   global_system_prompt |-> NullText,
                   active_assignment_id |-> NoId,
                   active_model |-> None],
     assignments |-> {}, conversations |-> {}, messages |-> {}, attachments |-> {},
     sessions |-> {}, users |-> {}, clock |-> 0,
     schema |-> [tables |-> FALSE, columns |-> {}],
     seq |-> [assignments |-> 0, conversations |-> 0, messages |-> 0, attachments |-> 0],
     last_insert_rowid |-> 0]

\* What a settings key holds when it has no row.
SettingAbsent(key) ==
    IF key = "active_assignment_id" THEN NoId
    ELSE IF key = "active_model" THEN None
    ELSE NullText

get_setting(d, key, default) ==
    IF d.settings[key] = SettingAbsent(key) THEN default ELSE d.settings[key]

set_setting(d, key, value) == [d EXCEPT !.settings[key] = value]

\* The id a new row gets: SERIAL draws from a sequence, SQLite's INTEGER PRIMARY
\* KEY (no AUTOINCREMENT) takes the largest rowid in the table plus one.
\* Variant: the smallest id that no row of the table holds.
next_id_lowest_free(d, table) ==
    CHOOSE k \in 1..(Cardinality(d[table]) + 1) :
        /\ k \notin {r.id : r \in d[table]}
        /\ \A j \in 1..(k - 1) : j \in {r.id : r \in d[table]}

next_id(d, table) ==
    IF env.use_pg THEN d.seq[table] + 1
    ELSE Max({r.id : r \in d[table]}) + 1

\* INSERT: the row gets its id; the connection remembers it (last_insert_rowid(),
\* or the RETURNING id of the statement).
insert_row(d, table, row) ==
    LET id == next_id(d, table)
    IN  [d EXCEPT ![table] = @ \cup {[row EXCEPT !.id = id]},
                  !.seq[table] = IF env.use_pg THEN id ELSE @,
                  !.last_insert_rowid = id]

\* Sessions.  A datetime is a number of hours; isoformat() writes it as text
\* and fromisoformat() reads the text back.
isoformat(t) == [iso |-> t]
fromisoformat(text) == text.iso

\* bcrypt.hash(password) and bcrypt.verify(password, hash): the hash is not the
\* password, and verify accepts exactly the password that was hashed.
bcrypt_hash(password) == <<"bcrypt", password>>
bcrypt_verify(password, pw_hash) == pw_hash = bcrypt_hash(password)

any_admin_exists(d) == \E u \in d.users : u.role = "admin"

\* INSERT ... ON CONFLICT(user_id) DO UPDATE SET password_hash, role.
upsert_user(d, user_id, password, role) ==
    [d EXCEPT !.users = {u \in @ : u.user_id # user_id}
                          \cup {[user_id |-> user_id,
                                 password_hash |-> bcrypt_hash(password),
                                 role |-> role]}]

\* What verify_user returns for None.
NoAuth == [user_id |-> None, role |-> None]

\* verify_user(user_id, password): the account's user id and role, or None.
verify_user(d, user_id, password) ==
    LET rows == {u \in d.users : u.user_id = user_id}
    IN  IF rows = {} THEN NoAuth
        ELSE LET u == CHOOSE x \in rows : TRUE
             IN  IF bcrypt_verify(password, u.password_hash)
                 THEN [user_id |-> u.user_id, role |-> u.role]
                 ELSE NoAuth

\* create_session(user_id, role, hours = 12)
DefaultSessionHours == 12

\* What get_session returns for None: no token (tokens count from 1).
NoSession == [token |-> 0, user_id |-> None, role |-> None]

\* token is secrets.token_urlsafe(24): one never handed out before.
create_session(d, token, user_id, role, hours, now) ==
    [d EXCEPT !.sessions = @ \cup {[token |-> token, user_id |-> user_id, role |-> role,
                                    created_at |-> isoformat(now),
                                    expires_at |-> isoformat(now + hours)]}]

delete_session(d, token) ==
    [d EXCEPT !.sessions = {r \in @ : r.token # token}]

\* Variant: the expiry is not looked at.
get_session_ignores_expiry(d, token, now) ==
    LET rows == {r \in d.sessions : r.token = token}
    IN  IF rows = {} THEN [db |-> d, out |-> NoSession]
        ELSE LET r == CHOOSE x \in rows : TRUE
             IN  [db |-> d, out |-> [token |-> r.token, user_id |-> r.user_id,
                                     role |-> r.role]]

\* get_session(token) at time now: the store it leaves and what it returns.
get_session(d, token, now) ==
    LET rows == {r \in d.sessions : r.token = token}
    IN  IF rows = {} THEN [db |-> d, out |-> NoSession]
        ELSE LET r == CHOOSE x \in rows : TRUE
             IN  IF fromisoformat(r.expires_at) < now
                 THEN [db |-> delete_session(d, token), out |-> NoSession]
                 ELSE [db |-> d, out |-> [token |-> r.token, user_id |-> r.user_id,
                                          role |-> r.role]]

list_assignments(d) == SeqById(d.assignments)

get_assignment(d, assignment_id) == {a \in d.assignments : a.id = assignment_id}

_ensure_default_assignment(d) ==
    LET rows == list_assignments(d)
    IN  IF rows # <<>>
        THEN IF get_setting(d, "active_assignment_id", NoId) = NoId
             THEN set_setting(d, "active_assignment_id", rows[1].id)
             ELSE d
        ELSE LET d1 == insert_row(d, "assignments",
                                  [id |-> NoId, name |-> "Assignment 1", prompt |-> <<>>])
             IN  set_setting(d1, "active_assignment_id", d1.last_insert_rowid)

\* SET assignment_id = COALESCE(assignment_id, ?),
\*     assignment_name = COALESCE(NULLIF(assignment_name, ''), ?),
\*     assignment_prompt = COALESCE(NULLIF(assignment_prompt, ''), ?)
\* Variant: the three columns are set on every selected row.
backfill_row_overwrites(c, a_id, a_name, a_prompt) ==
    [c EXCEPT !.assignment_id = a_id, !.assignment_name = a_name,
              !.assignment_prompt = a_prompt]

backfill_row(c, a_id, a_name, a_prompt) ==
    [c EXCEPT !.assignment_id = IF @ = NoId THEN a_id ELSE @,
              !.assignment_name = IF @ = None \/ @ = "" THEN a_name ELSE @,
              !.assignment_prompt = IF @ = NullText \/ @ = <<>> THEN a_prompt ELSE @]

_backfill_conversation_assignments(d) ==
    LET named == {a \in d.assignments : a.name = "Assignment 1"}
        rows == IF named # {} THEN SeqById(named) ELSE list_assignments(d)
    IN  IF rows = <<>> THEN d
        ELSE LET row == rows[1]
                 a_id == row.id
                 a_name == IF row.name = "" THEN "Assignment 1" ELSE row.name
                 a_prompt == IF row.prompt = NullText THEN <<>> ELSE row.prompt
                 missing(c) == \/ c.assignment_id = NoId
                               \/ c.assignment_name = None \/ c.assignment_name = ""
                               \/ c.assignment_prompt = NullText
                               \/ c.assignment_prompt = <<>>
             IN  [d EXCEPT !.conversations =
                     {IF missing(c) THEN backfill_row(c, a_id, a_name, a_prompt) ELSE c
                        : c \in @}]

\* The columns init_db adds to tables of an older schema.
MigratedColumns ==
    {"conversations.base_prompt", "conversations.assignment_id",
     "conversations.assignment_name", "conversations.assignment_prompt",
     "assignments.prompt", "attachments.bucket", "attachments.path"}

\* CREATE TABLE IF NOT EXISTS ...: a table that is not there is created with
\* all its columns, a table that is there is left as it is.
create_tables(d) ==
    IF d.schema.tables THEN d
    ELSE [d EXCEPT !.schema = [tables |-> TRUE, columns |-> MigratedColumns]]

\* if _has_column(table, col): return; ALTER TABLE table ADD COLUMN col
_add_column(d, col) ==
    IF col \in d.schema.columns THEN d
    ELSE [d EXCEPT !.schema.columns = @ \cup {col}]

\* Variant: a default assignment is inserted on every run.
init_db_adds_default(d) ==
    LET d1 == insert_row(create_tables(d), "assignments",
                         [id |-> NoId, name |-> "Assignment 1", prompt |-> <<>>])
    IN  set_setting(d1, "active_assignment_id", d1.last_insert_rowid)

\* The tables, the seven _add_column migrations, the global_system_prompt
\* migration, the default assignment and the backfill.
init_db(d) ==
    LET c0 == create_tables(d)
        c1 == _add_column(c0, "conversations.base_prompt")
        c2 == _add_column(c1, "conversations.assignment_id")
        c3 == _add_column(c2, "conversations.assignment_name")
        c4 == _add_column(c3, "conversations.assignment_prompt")
        c5 == _add_column(c4, "assignments.prompt")
        c6 == _add_column(c5, "attachments.bucket")
        c7 == _add_column(c6, "attachments.path")
        d1 == IF get_setting(c7, "base_system_prompt", NullText) = NullText
                 /\ get_setting(c7, "global_system_prompt", NullText) # NullText
              THEN set_setting(c7, "base_system_prompt",
                               get_setting(c7, "global_system_prompt", NullText))
              ELSE c7
    IN  _backfill_conversation_assignments(_ensure_default_assignment(d1))

add_assignment(d, name, prompt) ==
    insert_row(d, "assignments", [id |-> NoId, name |-> name, prompt |-> prompt])

update_assignment_prompt(d, assignment_id, prompt) ==
    [d EXCEPT !.assignments =
        {IF a.id = assignment_id THEN [a EXCEPT !.prompt = prompt] ELSE a : a \in @}]

\* The store get_active_assignment leaves: it re-points the setting when the
\* setting is missing or names no row.
get_active_assignment_db(d) ==
    IF get_assignment(d, get_setting(d, "active_assignment_id", NoId)) # {} THEN d
    ELSE LET d1 == IF d.assignments = {} THEN _ensure_default_assignment(d) ELSE d
         IN  set_setting(d1, "active_assignment_id", list_assignments(d1)[1].id)

\* Variant: the setting is believed without looking the row up.
get_active_assignment_unchecked(d) ==
    LET aid == get_setting(d, "active_assignment_id", NoId)
        hit == get_assignment(d, aid)
    IN  IF hit # {} THEN CHOOSE a \in hit : TRUE
        ELSE [id |-> aid, name |-> "Assignment 1", prompt |-> <<>>]

\* The row get_active_assignment returns.
get_active_assignment(d) ==
    LET hit == get_assignment(d, get_setting(d, "active_assignment_id", NoId))
    IN  IF hit # {} THEN CHOOSE a \in hit : TRUE
        ELSE list_assignments(get_active_assignment_db(d))[1]

set_active_assignment(d, assignment_id) ==
    set_setting(d, "active_assignment_id", assignment_id)

Strip(s) ==
    LET keep == {i \in 1..Len(s) : s[i] # " "}
    IN  IF keep = {} THEN <<>>
        ELSE SubSeq(s, CHOOSE i \in keep : \A j \in keep : i <= j, Max(keep))

get_base_system_prompt(d, default) ==
    LET v == get_setting(d, "base_system_prompt", NullText)
    IN  IF v # NullText /\ Strip(v) # <<>> THEN v ELSE default

set_base_system_prompt(d, prompt) == set_setting(d, "base_system_prompt", prompt)

\* Variant: the row is inserted with the assignment arguments as given.
create_conversation_as_given(d, user_id, role, title, model, system_prompt, base_prompt, assignment_id, assignment_name, assignment_prompt) ==
    insert_row(d, "conversations",
               [id |-> NoId, user_id |-> user_id, role |-> role, title |-> title,
                model |-> model, system_prompt |-> system_prompt,
                base_prompt |-> base_prompt, assignment_id |-> assignment_id,
                assignment_name |-> assignment_name,
                assignment_prompt |-> assignment_prompt,
                created_at |-> isoformat(d.clock), updated_at |-> isoformat(d.clock)])

\* The backstop (assignment_id or assignment_name not given: take the active
\* assignment), then the INSERT.
create_conversation(d, user_id, role, title, model, system_prompt, base_prompt, assignment_id, assignment_name, assignment_prompt) ==
    LET backstop == assignment_id = NoId \/ assignment_name = None
        a == get_active_assignment(d)
        d1 == IF backstop THEN get_active_assignment_db(d) ELSE d
        aid == IF backstop /\ assignment_id = NoId THEN a.id ELSE assignment_id
        aname == IF backstop /\ assignment_name = None THEN a.name ELSE assignment_name
        aprompt == IF backstop /\ assignment_prompt = NullText
                   THEN (IF a.prompt = NullText THEN <<>> ELSE a.prompt)
                   ELSE assignment_prompt
    IN  insert_row(d1, "conversations",
                   [id |-> NoId, user_id |-> user_id, role |-> role, title |-> title,
                    model |-> model, system_prompt |-> system_prompt,
                    base_prompt |-> base_prompt, assignment_id |-> aid,
                    assignment_name |-> aname, assignment_prompt |-> aprompt,
                    created_at |-> isoformat(d.clock), updated_at |-> isoformat(d.clock)])

\* UPDATE conversations SET updated_at = ?, <each field passed> WHERE id = ?
\* Variant: the three columns are written whether passed or not.
touch_conversation_writes_all(d, conversation_id, title, model, system_prompt) ==
    [d EXCEPT !.conversations =
        {IF c.id = conversation_id
         THEN [c EXCEPT !.updated_at = isoformat(d.clock), !.title = title,
                        !.model = model, !.system_prompt = system_prompt]
         ELSE c : c \in @}]

\* UPDATE conversations SET updated_at = now [, title] [, model] [, system_prompt]
\* WHERE id = conversation_id
touch_conversation(d, conversation_id, title, model, system_prompt) ==
    [d EXCEPT !.conversations =
        {IF c.id = conversation_id
         THEN [c EXCEPT !.updated_at = isoformat(d.clock),
                        !.title = IF title # None THEN title ELSE @,
                        !.model = IF model # None THEN model ELSE @,
                        !.system_prompt = IF system_prompt # NullText
                                          THEN system_prompt ELSE @]
         ELSE c : c \in @}]

get_conversation(d, conversation_id) ==
    {c \in d.conversations : c.id = conversation_id}

\* ASCII case folding, as LIKE (SQLite) and ILIKE (PostgreSQL) apply it.
lower(ch) == IF ch = "A" THEN "a" ELSE IF ch = "B" THEN "b" ELSE ch

\* text LIKE pat: % matches any run of characters, _ any one character.
RECURSIVE like(_, _)
like(pat, text) ==
    IF pat = <<>> THEN text = <<>>
    ELSE IF Head(pat) = "%"
         THEN like(Tail(pat), text) \/ (text # <<>> /\ like(pat, Tail(text)))
    ELSE IF text = <<>> THEN FALSE
    ELSE /\ (Head(pat) = "_" \/ lower(Head(pat)) = lower(Head(text)))
         /\ like(Tail(pat), Tail(text))

\* The lists SELECT ... WHERE <filters given> ORDER BY updated_at DESC LIMIT ?
\* may return: rows of equal updated_at come in any order.  A filter that is
\* None or empty adds no condition.
list_conversations_admin(d, user_filter, role_filter, model_filter, limit) ==
    LET hits == {c \in d.conversations :
                   /\ (user_filter # NullText /\ user_filter # <<>>)
                        => like(<<"%">> \o user_filter \o <<"%">>, c.user_id)
                   /\ (role_filter # None /\ role_filter # "") => c.role = role_filter
                   /\ (model_filter # None /\ model_filter # "") => c.model = model_filter}
        n == Cardinality(hits)
        orders == {q \in [1..n -> hits] :
                     /\ \A i, j \in 1..n : i # j => q[i] # q[j]
                     /\ \A i, j \in 1..n :
                            i < j => fromisoformat(q[i].updated_at) >= fromisoformat(q[j].updated_at)}
    IN  {SubSeq(q, 1, IF limit < n THEN limit ELSE n) : q \in orders}

list_conversations_for_user(d, user_id) ==
    {c.id : c \in {x \in d.conversations : x.user_id = user_id}}

get_conversation_messages(d, conversation_id) ==
    SeqById({m \in d.messages : m.conversation_id = conversation_id})

add_message(d, conversation_id, role, content) ==
    insert_row(d, "messages",
               [id |-> NoId, conversation_id |-> conversation_id, role |-> role,
                content |-> content])

update_message(d, message_id, content) ==
    [d EXCEPT !.messages =
        {IF m.id = message_id THEN [m EXCEPT !.content = content] ELSE m : m \in @}]

\* SELECT id FROM messages WHERE conversation_id = ? AND id > ?
select_messages_after(d, conversation_id, message_id) ==
    {m.id : m \in {x \in d.messages :
                      x.conversation_id = conversation_id /\ x.id > message_id}}

\* DELETE FROM attachments WHERE message_id IN (...)
delete_attachments_in(d, msg_ids) ==
    [d EXCEPT !.attachments = {a \in @ : a.message_id \notin msg_ids}]

\* DELETE FROM messages WHERE conversation_id = ? AND id > ?
delete_messages_gt(d, conversation_id, message_id) ==
    [d EXCEPT !.messages =
        {m \in @ : ~(m.conversation_id = conversation_id /\ m.id > message_id)}]

\* Variant: only the messages are deleted.
delete_messages_after_keeps_attachments(d, conversation_id, message_id) ==
    delete_messages_gt(d, conversation_id, message_id)

delete_messages_after(d, conversation_id, message_id) ==
    LET msg_ids == select_messages_after(d, conversation_id, message_id)
        d1 == IF msg_ids # {} THEN delete_attachments_in(d, msg_ids) ELSE d
    IN  delete_messages_gt(d1, conversation_id, message_id)

\* _supabase_client() is not None
supabase_configured == env.use_supabase

\* add_attachment calls sb.upload_bytes(supabase_url=, service_role_key=, bucket=,
\* path=, data=, content_type=); upload_bytes takes only user_id, conversation_id,
\* message_id, filename, mime, data and upsert, so the call raises TypeError.
upload_bytes_raises == TRUE

\* Whether add_attachment raises, leaving no row.
add_attachment_raises == supabase_configured /\ upload_bytes_raises

\* Variant: the call returns without a row written.
add_attachment_loses_row(d, message_id, kind, filename, mime, data, text_content) == d

\* Variant: the row is written although the upload raised.
add_attachment_dangling(d, message_id, kind, filename, mime, data, text_content) ==
    insert_row(d, "attachments",
               [id |-> NoId, message_id |-> message_id, kind |-> kind,
                filename |-> filename, mime |-> mime,
                data |-> IF supabase_configured THEN None ELSE data,
                text_content |-> text_content,
                bucket |-> IF supabase_configured THEN "bucket" ELSE None,
                path |-> IF supabase_configured THEN "m/path" ELSE None])

\* Variant: the bytes stay inline next to a (bucket, path) pair.
add_attachment_both(d, message_id, kind, filename, mime, data, text_content) ==
    insert_row(d, "attachments",
               [id |-> NoId, message_id |-> message_id, kind |-> kind,
                filename |-> filename, mime |-> mime, data |-> data,
                text_content |-> text_content, bucket |-> "bucket", path |-> "m/path"])

add_attachment(d, message_id, kind, filename, mime, data, text_content) ==
    IF ~supabase_configured
    THEN insert_row(d, "attachments",
                    [id |-> NoId, message_id |-> message_id, kind |-> kind,
                     filename |-> filename, mime |-> mime, data |-> data,
                     text_content |-> text_content, bucket |-> None, path |-> None])
    ELSE IF upload_bytes_raises THEN d
    ELSE insert_row(d, "attachments",
                    [id |-> NoId, message_id |-> message_id, kind |-> kind,
                     filename |-> filename, mime |-> mime, data |-> None,
                     text_content |-> text_content, bucket |-> "bucket",
                     path |-> "m/path"])

\* Variant: an external row is fetched whether or not the client is configured.
fetches_object_unconfigured(a) == a.data = None /\ a.bucket # None /\ a.path # None

\* if data is None and sb is not None and r.get("bucket") and r.get("path"):
\* the row's bytes are asked of the object store.
fetches_object(a) ==
    a.data = None /\ supabase_configured /\ a.bucket # None /\ a.path # None

\* sb.download_bytes(supabase_url=, service_role_key=, bucket=, path=) inside
\* try/except Exception: download_bytes takes only bucket and path, the call
\* raises TypeError and data stays None.
listed_data(a) == IF fetches_object(a) THEN None ELSE a.data

\* Variant: a row whose fetch failed is left out of the result.
list_attachments_skips_unfetched(d, message_ids) ==
    [mid \in message_ids |->
        SeqById({[id |-> a.id, message_id |-> a.message_id, kind |-> a.kind,
                  filename |-> a.filename, mime |-> a.mime, data |-> a.data,
                  text_content |-> a.text_content]
                   : a \in {x \in d.attachments :
                               x.message_id = mid /\ ~fetches_object(x)}})]

\* The rows of the given messages, by id; data is the inline blob, and for an
\* external row what the fetch leaves (None when it raises).
list_attachments_for_message_ids(d, message_ids) ==
    [mid \in message_ids |->
        SeqById({[id |-> a.id, message_id |-> a.message_id, kind |-> a.kind,
                  filename |-> a.filename, mime |-> a.mime, data |-> listed_data(a),
                  text_content |-> a.text_content]
                   : a \in {x \in d.attachments : x.message_id = mid}})]

(***************************************************************************)
(* app.py: session state, payload assembly, the chat page.                 *)
(***************************************************************************)
INCLUDE_FILE_TEXT_LAST_N_USER_MSGS == 3
INCLUDE_IMAGES_LAST_N_USER_MSGS == 1

Accounts == {[user_id |-> "admin1", role |-> "admin"],
             [user_id |-> "stud1", role |-> "student"]}
UserTexts == {<<"u1">>}
DraftTexts == {<<"u1">>, <<"u2">>}
Chunks == {"x"}
TextFile == [filename |-> "a.txt", mime |-> "text/plain", raw |-> "bytes-a"]
ImageFile == [filename |-> "i.png", mime |-> "image/png", raw |-> "bytes-i"]
\* What one chat submission uploads: nothing, or an image and a text file.
FileChoices == {<<>>, <<ImageFile, TextFile>>}

NoEdit == [message_id |-> NoId, original |-> <<>>, draft |-> <<>>]

\* (mime or "").lower().startswith("image/")
is_image_mime(mime) == mime = "image/png"

\* extract_text_from_bytes(filename, raw): the text of a file, opaque.
extract_text_from_bytes(f) == <<"text of", f.filename>>

OrEmpty(t) == IF t = NullText THEN <<>> ELSE t

_combined_prompt(base_prompt, assignment_prompt) ==
    LET base == Strip(OrEmpty(base_prompt))
        ap == Strip(OrEmpty(assignment_prompt))
    IN  (IF base = <<>> THEN Strip(DEFAULT_BASE_PROMPT) ELSE base)
        \o (IF ap # <<>> THEN <<"\n", "\n">> \o ap ELSE <<>>)

\* saved if it is one of the models, else the first model (and it is saved), else "".
_load_active_model(d) ==
    LET saved == get_setting(d, "active_model", None)
    IN  IF saved # None /\ \E i \in 1..Len(env.models) : env.models[i] = saved THEN saved
        ELSE IF env.models # <<>> THEN env.models[1]
        ELSE ""

_load_active_model_db(d) ==
    LET saved == get_setting(d, "active_model", None)
    IN  IF saved # None /\ \E i \in 1..Len(env.models) : env.models[i] = saved THEN d
        ELSE IF env.models # <<>> THEN set_setting(d, "active_model", env.models[1])
        ELSE d

\* What every script run does before the page: init_db(), then the sidebar's
\* get_active_assignment() and _load_active_model(models).
page_start(d) == _load_active_model_db(get_active_assignment_db(init_db(d)))

ui_messages_of(d, conversation_id) ==
    LET msgs == get_conversation_messages(d, conversation_id)
        att_map == list_attachments_for_message_ids(d, {msgs[i].id : i \in 1..Len(msgs)})
    IN  [i \in 1..Len(msgs) |->
            [id |-> msgs[i].id, role |-> msgs[i].role, content |-> msgs[i].content,
             attachments |-> att_map[msgs[i].id]]]

\* Variant: an unknown id only drops the active conversation id.
_load_conversation_into_state_keeps(d, s, conversation_id) ==
    IF get_conversation(d, conversation_id) = {}
    THEN [s EXCEPT !.conversation_id = NoId]
    ELSE [s EXCEPT !.conversation_id = conversation_id,
                   !.messages = ui_messages_of(d, conversation_id),
                   !.conversation_meta = get_conversation(d, conversation_id)]

_load_conversation_into_state(d, s, conversation_id) ==
    IF get_conversation(d, conversation_id) = {}
    THEN [s EXCEPT !.conversation_id = NoId, !.messages = <<>>, !.conversation_meta = {}]
    ELSE [s EXCEPT !.conversation_id = conversation_id,
                   !.messages = ui_messages_of(d, conversation_id),
                   !.conversation_meta = get_conversation(d, conversation_id)]

\* seq[-n:]
LastN(seq, n) ==
    IF Len(seq) <= n THEN seq ELSE SubSeq(seq, Len(seq) - n + 1, Len(seq))

RECURSIVE FileTexts(_)
FileTexts(atts) ==
    IF atts = <<>> THEN <<>>
    ELSE (IF Head(atts).kind = "file" /\ Head(atts).text_content # NullText
             /\ Head(atts).text_content # <<>>
          THEN <<[file |-> Head(atts).filename, text |-> Head(atts).text_content]>>
          ELSE <<>>) \o FileTexts(Tail(atts))

RECURSIVE ImagesB64(_)
ImagesB64(atts) ==
    IF atts = <<>> THEN <<>>
    ELSE (IF Head(atts).kind = "image" /\ Head(atts).data # None
          THEN <<<<"b64", Head(atts).data>>>> ELSE <<>>) \o ImagesB64(Tail(atts))

\* Variant: the stored system_prompt is looked at before the snapshot.
payload_system_prompt_stored_first(d, s, conversation_id) ==
    LET conv == IF s.conversation_meta # {} THEN s.conversation_meta
                ELSE get_conversation(d, conversation_id)
        c == CHOOSE x \in conv : TRUE
        base_prompt == IF conv = {} THEN <<>> ELSE Strip(OrEmpty(c.base_prompt))
        ap == IF conv = {} THEN <<>> ELSE Strip(OrEmpty(c.assignment_prompt))
        sys_prompt == IF conv = {} THEN <<>> ELSE Strip(OrEmpty(c.system_prompt))
    IN  IF sys_prompt # <<>> THEN sys_prompt
        ELSE IF base_prompt # <<>> \/ ap # <<>> THEN _combined_prompt(base_prompt, ap)
        ELSE _combined_prompt(get_base_system_prompt(d, DEFAULT_BASE_PROMPT),
                              OrEmpty(get_active_assignment(d).prompt))

\* The system turn: the conversation's snapshot, else its system_prompt, else
\* the current global prompts.
payload_system_prompt(d, s, conversation_id) ==
    LET conv == IF s.conversation_meta # {} THEN s.conversation_meta
                ELSE get_conversation(d, conversation_id)
        c == CHOOSE x \in conv : TRUE
        base_prompt == IF conv = {} THEN <<>> ELSE Strip(OrEmpty(c.base_prompt))
        ap == IF conv = {} THEN <<>> ELSE Strip(OrEmpty(c.assignment_prompt))
        sys_prompt == IF conv = {} THEN <<>> ELSE Strip(OrEmpty(c.system_prompt))
    IN  IF base_prompt # <<>> \/ ap # <<>> THEN _combined_prompt(base_prompt, ap)
        ELSE IF sys_prompt # <<>> THEN sys_prompt
        ELSE _combined_prompt(get_base_system_prompt(d, DEFAULT_BASE_PROMPT),
                              OrEmpty(get_active_assignment(d).prompt))

\* Variant: every user turn carries its file text and its images.
_build_payload_messages_unwindowed(d, s, conversation_id) ==
    LET msgs == s.messages
        turn(i) ==
            IF msgs[i].role = "user"
            THEN [role |-> "user",
                  content |-> <<msgs[i].content>> \o FileTexts(msgs[i].attachments),
                  images |-> ImagesB64(msgs[i].attachments)]
            ELSE [role |-> "assistant", content |-> <<msgs[i].content>>, images |-> <<>>]
    IN  <<[role |-> "system", content |-> <<payload_system_prompt(d, s, conversation_id)>>,
           images |-> <<>>]>>
        \o [i \in 1..Len(msgs) |-> turn(i)]

_build_payload_messages(d, s, conversation_id) ==
    LET msgs == s.messages
        user_idxs == SelectSeq([i \in 1..Len(msgs) |-> i], LAMBDA i : msgs[i].role = "user")
        idx_set(q) == {q[j] : j \in 1..Len(q)}
        include_files_from ==
            IF INCLUDE_FILE_TEXT_LAST_N_USER_MSGS > 0
            THEN idx_set(LastN(user_idxs, INCLUDE_FILE_TEXT_LAST_N_USER_MSGS)) ELSE {}
        include_images_from ==
            IF INCLUDE_IMAGES_LAST_N_USER_MSGS > 0
            THEN idx_set(LastN(user_idxs, INCLUDE_IMAGES_LAST_N_USER_MSGS)) ELSE {}
        turn(i) ==
            IF msgs[i].role = "user"
            THEN [role |-> "user",
                  content |-> <<msgs[i].content>>
                              \o (IF i \in include_files_from
                                  THEN FileTexts(msgs[i].attachments) ELSE <<>>),
                  images |-> IF i \in include_images_from
                             THEN ImagesB64(msgs[i].attachments) ELSE <<>>]
            ELSE [role |-> "assistant", content |-> <<msgs[i].content>>, images |-> <<>>]
    IN  <<[role |-> "system", content |-> <<payload_system_prompt(d, s, conversation_id)>>,
           images |-> <<>>]>>
        \o [i \in 1..Len(msgs) |-> turn(i)]

RunIdle ==
    [pc |-> "idle", outcome |-> "none", conv_id |-> NoId, user_msg_id |-> NoId,
     text |-> <<>>, files |-> <<>>, sent |-> <<>>, attachments |-> <<>>,
     full |-> <<>>, payload |-> <<>>, active_model |-> ""]

\* What hist.edit records when Save & Regenerate starts: the conversation that
\* holds the target, the target's position k in it, and the k messages up to it.
EditStart(d, message_id, draft) ==
    LET holder == {m \in d.messages : m.id = message_id}
        conv == IF holder = {} THEN NoId ELSE (CHOOSE m \in holder : TRUE).conversation_id
        msgs == get_conversation_messages(d, conv)
        k == Cardinality({i \in 1..Len(msgs) : msgs[i].id <= message_id})
    IN  [conv |-> conv, target |-> message_id, draft |-> draft, k |-> k,
         before |-> SubSeq(msgs, 1, k - 1)]

NoEditStart ==
    [conv |-> NoId, target |-> NoId, draft |-> <<>>, k |-> 0, before |-> <<>>]

\* Variant: every logged-in user counts as admin.
is_admin_any_user == ss.role # None

is_admin == ss.role = "admin"

\* The largest message id a submission may be given (SpecChat runs without
\* process records).
MsgIdCap == IF procs = <<>> THEN MaxMsgId ELSE MaxPayloadMsgId

\* The sidebar's Logout button: _logout() deletes the session row and pops the
\* user, the role, the token and the loaded conversation from the session
\* state; the login page follows.
Logout ==
    /\ run.pc = "idle"
    /\ ss.user_id # None
    /\ db' = delete_session(page_start(db), ss.session_token)
    /\ ss' = [ss EXCEPT !.user_id = None, !.role = None,
                        !.session_token = NoSession.token, !.conversation_id = NoId,
                        !.messages = <<>>, !.conversation_meta = {}]
    /\ UNCHANGED <<env, run, cs, procs, hist>>

\* The login form with valid credentials of an account: _login(user_id, role).
Login ==
    /\ run.pc = "idle"
    /\ ss.user_id = None
    /\ \E a \in Accounts :
           LET d0 == init_db(db)
               token == Max({r.token : r \in d0.sessions}) + 1
           IN  /\ db' = create_session(d0, token, a.user_id, a.role,
                                       DefaultSessionHours, d0.clock)
               /\ ss' = [ss EXCEPT !.user_id = a.user_id, !.role = a.role,
                                   !.session_token = token]
    /\ UNCHANGED <<env, run, cs, procs, hist>>

\* Variant: picking "New conversation" stores a conversation row at once.
PickConversation_creates ==
    /\ run.pc = "idle"
    /\ ss.user_id # None
    /\ ss.conversation_id # NoId
    /\ Cardinality(db.conversations) < MaxChatConvs
    /\ LET d0 == page_start(db)
           a == get_active_assignment(d0)
           d1 == create_conversation(d0, ss.user_id, ss.role, "New conversation", _load_active_model(d0), <<>>, <<>>, a.id, a.name, <<>>)
       IN  /\ db' = d1
           /\ ss' = _load_conversation_into_state(d1, ss, d1.last_insert_rowid)
    /\ UNCHANGED <<env, run, cs, procs, hist>>

\* The thread picker: another thread, or "New conversation", is picked.
PickConversation ==
    /\ run.pc = "idle"
    /\ ss.user_id # None
    /\ LET d0 == page_start(db)
       IN  \E picked \in {NoId} \cup list_conversations_for_user(d0, ss.user_id) :
               /\ picked # ss.conversation_id
               /\ db' = d0
               /\ ss' = IF picked = NoId
                        THEN [ss EXCEPT !.conversation_id = NoId, !.messages = <<>>,
                                        !.conversation_meta = {}]
                        ELSE _load_conversation_into_state(d0, ss, picked)
    /\ UNCHANGED <<env, run, cs, procs, hist>>

\* The Edit button under a user message (admin only).
ClickEdit ==
    /\ run.pc = "idle"
    /\ is_admin
    /\ \E i \in 1..Len(ss.messages) :
           /\ ss.messages[i].role = "user"
           /\ ss' = [ss EXCEPT !.editing =
                        [message_id |-> ss.messages[i].id,
                         original |-> ss.messages[i].content,
                         draft |-> ss.messages[i].content]]
    /\ db' = page_start(db)
    /\ UNCHANGED <<env, run, cs, procs, hist>>

\* Variant: Cancel writes the draft to the target before it closes the panel.
CancelEdit_saves_draft ==
    /\ run.pc = "idle"
    /\ is_admin
    /\ ss.editing # NoEdit
    /\ \E draft \in DraftTexts :
           db' = update_message(page_start(db), ss.editing.message_id, draft)
    /\ ss' = [ss EXCEPT !.editing = NoEdit]
    /\ run' = [RunIdle EXCEPT !.pc = "done", !.outcome = "cancelled"]
    /\ UNCHANGED <<env, cs, procs, hist>>

\* The Cancel button of the edit panel: the text area's value becomes the
\* draft, the edit target is dropped, rerun.
CancelEdit ==
    /\ run.pc = "idle"
    /\ is_admin
    /\ ss.editing # NoEdit
    /\ \E draft \in DraftTexts :
           ss' = [[ss EXCEPT !.editing.draft = draft] EXCEPT !.editing = NoEdit]
    /\ db' = page_start(db)
    /\ run' = [RunIdle EXCEPT !.pc = "done", !.outcome = "cancelled"]
    /\ UNCHANGED <<env, cs, procs, hist>>

\* Save & Regenerate up to the payload: update_message, delete_messages_after,
\* reload, _build_payload_messages; the stream is then open.
SaveRegenerate ==
    /\ run.pc = "idle"
    /\ is_admin
    /\ ss.editing # NoEdit
    /\ \E draft \in DraftTexts :
         LET d0 == page_start(db)
             conv_id == ss.conversation_id
             mid == ss.editing.message_id
             d1 == update_message(d0, mid, draft)
             d2 == delete_messages_after(d1, conv_id, mid)
             s1 == _load_conversation_into_state(
                       d2, [ss EXCEPT !.editing.draft = draft], conv_id)
         IN  IF conv_id = NoId
             THEN /\ db' = d0
                  /\ ss' = [ss EXCEPT !.editing = NoEdit]
                  /\ run' = RunIdle
                  /\ hist' = hist
             ELSE /\ db' = d2
                  /\ ss' = s1
                  /\ run' = [RunIdle EXCEPT !.pc = "regen_stream", !.conv_id = conv_id,
                                !.active_model = _load_active_model(d0),
                                !.payload = _build_payload_messages(d2, s1, conv_id)]
                  /\ hist' = [hist EXCEPT !.edit = EditStart(d0, mid, draft)]
    /\ UNCHANGED <<env, cs, procs>>

\* A chat submission up to the user message, handled when the script run of
\* the session is at one of the positions pcs: create the conversation when
\* none is active (snapshot of the current prompts), then add_message.
SubmitAt(pcs) ==
    /\ run.pc \in pcs
    /\ ss.user_id # None
    /\ \E text \in UserTexts, files \in FileChoices :
         LET d0 == page_start(db)
             active_assignment == get_active_assignment(init_db(db))
             active_model == _load_active_model(d0)
             base_prompt == get_base_system_prompt(d0, DEFAULT_BASE_PROMPT)
             assignment_prompt == OrEmpty(active_assignment.prompt)
             d1 == IF ss.conversation_id # NoId THEN d0
                   ELSE create_conversation(d0, ss.user_id, ss.role, "New conversation", active_model, _combined_prompt(base_prompt, assignment_prompt), base_prompt, active_assignment.id, active_assignment.name, assignment_prompt)
             conv_id == IF ss.conversation_id # NoId THEN ss.conversation_id
                        ELSE d1.last_insert_rowid
             d2 == add_message(d1, conv_id, "user", text)
         IN  /\ ss.conversation_id = NoId => Cardinality(db.conversations) < MaxChatConvs
             /\ d2.last_insert_rowid <= MsgIdCap
             /\ db' = d2
             /\ ss' = IF ss.conversation_id # NoId THEN ss
                      ELSE [ss EXCEPT !.conversation_id = conv_id,
                                      !.conversation_meta = get_conversation(d1, conv_id)]
             /\ run' = [RunIdle EXCEPT !.pc = "attach", !.conv_id = conv_id,
                           !.user_msg_id = d2.last_insert_rowid, !.text = text,
                           !.files = files, !.active_model = active_model]
             /\ hist' = [hist EXCEPT !.snap = IF ss.conversation_id # NoId THEN @
                                               ELSE @ \cup get_conversation(d1, conv_id)]
    /\ UNCHANGED <<env, cs, procs>>

\* Variant: a submission is also handled while a stream of the session is open.
Submit_while_streaming == SubmitAt({"idle", "send_stream", "regen_stream"})

\* The script runs of a session follow one another: a submission is handled
\* by a new run, after the previous run has ended.
Submit == SubmitAt({"idle"})

\* One file of the submission: add_attachment returns.
AttachOk ==
    /\ run.pc = "attach"
    /\ run.files # <<>>
    /\ ~add_attachment_raises
    /\ LET f == Head(run.files)
           kind == IF is_image_mime(f.mime) THEN "image" ELSE "file"
           text_content == IF kind = "file" THEN extract_text_from_bytes(f) ELSE NullText
       IN  /\ db' = add_attachment(db, run.user_msg_id, kind, f.filename, f.mime,
                                   f.raw, text_content)
           /\ run' = [run EXCEPT !.files = Tail(@), !.sent = Append(@, f),
                         !.attachments = Append(@,
                             [id |-> NoId, message_id |-> NoId, kind |-> kind,
                              filename |-> f.filename, mime |-> f.mime, data |-> f.raw,
                              text_content |-> text_content])]
    /\ UNCHANGED <<env, ss, cs, procs, hist>>

\* One file of the submission: add_attachment raises, the script run ends.
AttachFail ==
    /\ run.pc = "attach"
    /\ run.files # <<>>
    /\ add_attachment_raises
    /\ run' = [run EXCEPT !.pc = "done", !.outcome = "attach_failed"]
    /\ UNCHANGED <<env, db, ss, cs, procs, hist>>

\* All files stored: the user message joins st.session_state["messages"], the
\* payload is built, chat_stream is called.
BeginStream ==
    /\ run.pc = "attach"
    /\ run.files = <<>>
    /\ LET s1 == [ss EXCEPT !.messages = Append(@,
                     [id |-> run.user_msg_id, role |-> "user", content |-> run.text,
                      attachments |-> run.attachments])]
       IN  /\ ss' = s1
           /\ run' = [run EXCEPT !.pc = "send_stream",
                         !.payload = _build_payload_messages(db, s1, run.conv_id)]
    /\ UNCHANGED <<env, db, cs, procs, hist>>

\* for chunk in chat_stream(...): full += chunk
StreamChunk ==
    /\ run.pc \in {"send_stream", "regen_stream"}
    /\ Len(run.full) < MaxChunks
    /\ \E chunk \in Chunks : run' = [run EXCEPT !.full = Append(@, chunk)]
    /\ UNCHANGED <<env, db, ss, cs, procs, hist>>

\* The generator is exhausted: the loop ends. (The reply needs a message id.)
StreamEnd ==
    /\ run.pc \in {"send_stream", "regen_stream"}
    /\ next_id(db, "messages") <= MsgIdCap
    /\ run' = [run EXCEPT !.pc = IF @ = "send_stream" THEN "send_streamed"
                                 ELSE "regen_streamed"]
    /\ UNCHANGED <<env, db, ss, cs, procs, hist>>

\* Variant: the error handler stores what had arrived.
StreamFail_persists_partial ==
    /\ run.pc \in {"send_stream", "regen_stream"}
    /\ db' = add_message(db, run.conv_id, "assistant", run.full)
    /\ run' = [run EXCEPT !.pc = "done",
                  !.outcome = IF run.pc = "send_stream" THEN "send_failed"
                              ELSE "regen_failed"]
    /\ UNCHANGED <<env, ss, cs, procs, hist>>

\* chat_stream raises (HTTPError, or any other Exception): the error is shown
\* and the run returns.
StreamFail ==
    /\ run.pc \in {"send_stream", "regen_stream"}
    /\ run' = [run EXCEPT !.pc = "done",
                  !.outcome = IF run.pc = "send_stream" THEN "send_failed"
                              ELSE "regen_failed"]
    /\ UNCHANGED <<env, db, ss, cs, procs, hist>>

\* Send path after the stream: add_message(assistant), the reply joins the
\* session's messages, touch_conversation, rerun.
PersistSend ==
    /\ run.pc = "send_streamed"
    /\ LET d1 == add_message(db, run.conv_id, "assistant", run.full)
       IN  /\ db' = touch_conversation(d1, run.conv_id, None, run.active_model, NullText)
           /\ ss' = [ss EXCEPT !.messages = Append(@,
                        [id |-> d1.last_insert_rowid, role |-> "assistant",
                         content |-> run.full, attachments |-> <<>>])]
    /\ run' = [run EXCEPT !.pc = "done", !.outcome = "send_ok"]
    /\ UNCHANGED <<env, cs, procs, hist>>

\* Save & Regenerate after the stream: add_message(assistant),
\* touch_conversation, reload, the edit target is cleared, rerun.
PersistRegen ==
    /\ run.pc = "regen_streamed"
    /\ LET d1 == add_message(db, run.conv_id, "assistant", run.full)
           d2 == touch_conversation(d1, run.conv_id, None, run.active_model, NullText)
       IN  /\ db' = d2
           /\ ss' = [_load_conversation_into_state(d2, ss, run.conv_id)
                        EXCEPT !.editing = NoEdit]
    /\ run' = [run EXCEPT !.pc = "done", !.outcome = "regen_ok"]
    /\ UNCHANGED <<env, cs, procs, hist>>

\* The script run is over: after st.rerun() the next run starts with init_db and
\* the sidebar; after an error the page waits as it is.
RunEnds ==
    /\ run.pc = "done"
    /\ db' = IF run.outcome \in {"send_ok", "regen_ok", "cancelled", "user_saved"}
             THEN page_start(db) ELSE db
    /\ run' = RunIdle
    /\ hist' = [hist EXCEPT !.edit = NoEditStart]
    /\ UNCHANGED <<env, ss, cs, procs>>

\* Admin dashboard, "Save base prompt": set_base_system_prompt(base_edit).
AdminSaveBasePrompt ==
    /\ run.pc = "idle"
    /\ is_admin
    /\ \E base_edit \in {<<>>, <<"P", " ">>} :
           db' = set_base_system_prompt(page_start(db), base_edit)
    /\ UNCHANGED <<env, ss, run, cs, procs, hist>>

\* Admin dashboard, "Save assignment prompt":
\* update_assignment_prompt(active["id"], ap_edit).
AdminSaveAssignmentPrompt ==
    /\ run.pc = "idle"
    /\ is_admin
    /\ \E ap_edit \in {<<>>, <<" ", "Q">>} :
           LET d0 == page_start(db)
           IN  db' = update_assignment_prompt(d0, get_active_assignment(d0).id, ap_edit)
    /\ UNCHANGED <<env, ss, run, cs, procs, hist>>

\* What the user forms are filled with.
UserIds == {"admin1", "stud1"}
Passwords == {"p", "q"}
NoRequest == <<"none", "", "", "">>

\* _login(user_id, role): a new session row, and the session state holds the
\* user, the role and the token.
_login_db(d, user_id, role) ==
    create_session(d, Max({r.token : r \in d.sessions}) + 1, user_id, role,
                   DefaultSessionHours, d.clock)

_login_ss(d, s, user_id, role) ==
    [s EXCEPT !.user_id = user_id, !.role = role,
              !.session_token = Max({r.token : r \in d.sessions}) + 1]

\* _render_login() while any_admin_exists() is false, "Create admin" pressed:
\* an empty user id or password shows an error, else upsert_user(...,
\* "admin"), _login and a rerun.
BootstrapAdmin ==
    /\ run.pc = "idle"
    /\ ss.user_id = None
    /\ LET d0 == init_db(db)
       IN  /\ ~any_admin_exists(d0)
           /\ \E user_id \in UserIds \cup {""}, password \in Passwords \cup {""} :
                 /\ procs' = <<"bootstrap", user_id, password, "admin">>
                 /\ IF user_id = "" \/ password = ""
                    THEN /\ db' = d0
                         /\ ss' = ss
                         /\ run' = [RunIdle EXCEPT !.pc = "done", !.outcome = "user_rejected"]
                    ELSE LET d1 == upsert_user(d0, user_id, password, "admin")
                         IN  /\ db' = _login_db(d1, user_id, "admin")
                             /\ ss' = _login_ss(d1, ss, user_id, "admin")
                             /\ run' = [RunIdle EXCEPT !.pc = "done", !.outcome = "user_saved"]
    /\ UNCHANGED <<env, cs, hist>>

\* Variant: signing in with an unknown user id registers it as a student.
SignIn_registers ==
    /\ run.pc = "idle"
    /\ ss.user_id = None
    /\ LET d0 == init_db(db)
       IN  /\ any_admin_exists(d0)
           /\ \E user_id \in UserIds \cup {""}, password \in Passwords \cup {""} :
                 LET known == \E u \in d0.users : u.user_id = user_id
                     d1 == IF known THEN d0 ELSE upsert_user(d0, user_id, password, "student")
                     auth == verify_user(d1, user_id, password)
                 IN  /\ procs' = <<"login", user_id, password, "">>
                     /\ IF auth = NoAuth
                        THEN /\ db' = d1
                             /\ ss' = ss
                             /\ run' = [RunIdle EXCEPT !.pc = "done", !.outcome = "login_failed"]
                        ELSE /\ db' = _login_db(d1, auth.user_id, auth.role)
                             /\ ss' = _login_ss(d1, ss, auth.user_id, auth.role)
                             /\ run' = [RunIdle EXCEPT !.pc = "done", !.outcome = "user_saved"]
    /\ UNCHANGED <<env, cs, hist>>

\* _render_login() while an admin exists, "Login" pressed: verify_user, then
\* "Invalid credentials", or _login(auth) and a rerun.
SignIn ==
    /\ run.pc = "idle"
    /\ ss.user_id = None
    /\ LET d0 == init_db(db)
       IN  /\ any_admin_exists(d0)
           /\ \E user_id \in UserIds \cup {""}, password \in Passwords \cup {""} :
                 LET auth == verify_user(d0, user_id, password)
                 IN  /\ procs' = <<"login", user_id, password, "">>
                     /\ IF auth = NoAuth
                        THEN /\ db' = d0
                             /\ ss' = ss
                             /\ run' = [RunIdle EXCEPT !.pc = "done", !.outcome = "login_failed"]
                        ELSE /\ db' = _login_db(d0, auth.user_id, auth.role)
                             /\ ss' = _login_ss(d0, ss, auth.user_id, auth.role)
                             /\ run' = [RunIdle EXCEPT !.pc = "done", !.outcome = "user_saved"]
    /\ UNCHANGED <<env, cs, hist>>

\* Variant: "Save user" stores whatever the form holds.
AdminSaveUser_unvalidated ==
    /\ run.pc = "idle"
    /\ is_admin
    /\ \E uid \in UserIds \cup {""}, pw \in Passwords \cup {""}, role \in {"student", "admin"} :
          /\ procs' = <<"save_user", uid, pw, role>>
          /\ db' = upsert_user(page_start(db), uid, pw, role)
          /\ run' = [RunIdle EXCEPT !.pc = "done", !.outcome = "user_saved"]
    /\ UNCHANGED <<env, ss, cs, hist>>

\* Admin dashboard (shown to role admin only), Users tab, "Save user": an
\* empty user id or password shows an error, else upsert_user and a rerun.
AdminSaveUser ==
    /\ run.pc = "idle"
    /\ is_admin
    /\ \E uid \in UserIds \cup {""}, pw \in Passwords \cup {""}, role \in {"student", "admin"} :
          /\ procs' = <<"save_user", uid, pw, role>>
          /\ IF uid = "" \/ pw = ""
             THEN /\ db' = page_start(db)
                  /\ run' = [RunIdle EXCEPT !.pc = "done", !.outcome = "user_rejected"]
             ELSE /\ db' = upsert_user(page_start(db), uid, pw, role)
                  /\ run' = [RunIdle EXCEPT !.pc = "done", !.outcome = "user_saved"]
    /\ UNCHANGED <<env, ss, cs, hist>>

(***************************************************************************)
(* SpecStream: one chat_stream call on every combination of its inputs.    *)
(***************************************************************************)
EnvOff == [use_pg |-> FALSE, use_supabase |-> FALSE, models |-> <<"m1">>]
SsOff ==
    [user_id |-> None, role |-> None, session_token |-> NoSession.token,
     conversation_id |-> NoId, messages |-> <<>>, conversation_meta |-> {},
     editing |-> NoEdit]
ProcsOff == <<>>
HistOff == [snap |-> {}, edit |-> NoEditStart, late |-> FALSE]

InitStream ==
    /\ env = EnvOff
    /\ db = EmptyDb
    /\ ss = SsOff
    /\ run = RunIdle
    /\ procs = ProcsOff
    /\ hist = HistOff
    /\ cs \in {CsStart(host, api_key, model, stream, options, think) :
                 host \in Hosts, api_key \in ApiKeys, model \in Models,
                 stream \in BOOLEAN, options \in OptionValues, think \in ThinkValues}

NextStream ==
    \/ chat_stream_post
    \/ chat_stream_retry
    \/ chat_stream_check
    \/ chat_stream_line
    \/ chat_stream_eof
    \/ chat_stream_broken

SpecStream == InitStream /\ [][NextStream]_vars

(***************************************************************************)
(* SpecChat: one browser session on the chat page, from a fresh database.  *)
(***************************************************************************)
InitChat ==
    /\ env \in [use_pg : BOOLEAN, use_supabase : BOOLEAN, models : {<<"m1">>}]
    /\ \E a \in Accounts :
           /\ db = create_session(init_db(EmptyDb), 1, a.user_id, a.role,
                                  DefaultSessionHours, 0)
           /\ ss = [SsOff EXCEPT !.user_id = a.user_id, !.role = a.role,
                                 !.session_token = 1]
    /\ run = RunIdle
    /\ cs = CsIdle
    /\ procs = ProcsOff
    /\ hist = HistOff

NextChat ==
    \/ Logout
    \/ Login
    \/ PickConversation
    \/ ClickEdit
    \/ CancelEdit
    \/ SaveRegenerate
    \/ Submit
    \/ AttachOk
    \/ AttachFail
    \/ BeginStream
    \/ StreamChunk
    \/ StreamEnd
    \/ StreamFail
    \/ PersistSend
    \/ PersistRegen
    \/ RunEnds

SpecChat == InitChat /\ [][NextChat]_vars


(***************************************************************************)
(* SpecStore: the prompt, assignment and conversation API of the store,    *)
(* called in any order, with init_db run again as every page rerun does.   *)
(***************************************************************************)
SystemPrompts == {NullText, <<"S">>}

\* A database file of an older deployment: tables without the migrated
\* columns, the prompt under global_system_prompt, one assignment that is not
\* "Assignment 1", one conversation without assignment, and active_assignment_id
\* either absent or naming no row.
OldDb(active) ==
    [EmptyDb EXCEPT
       !.schema = [tables |-> TRUE, columns |-> {}],
       !.settings = [@ EXCEPT !.global_system_prompt = <<"Q">>,
                              !.active_assignment_id = active],
       !.assignments = {[id |-> 1, name |-> "Assignment 2", prompt |-> NullText]},
       !.conversations = {[id |-> 1, user_id |-> "stud1", role |-> "student",
                           title |-> "T", model |-> "m1", system_prompt |-> <<"S">>,
                           base_prompt |-> NullText, assignment_id |-> NoId,
                           assignment_name |-> None, assignment_prompt |-> NullText,
                           created_at |-> isoformat(0), updated_at |-> isoformat(0)]},
       !.seq = [@ EXCEPT !.assignments = 1, !.conversations = 1]]

\* What init_db may find at the start of the process.
FoundDbs == {EmptyDb, OldDb(NoId), OldDb(3)}

\* inited: init_db has returned; init_runs: how many init_db runs the last
\* calls were, with no other operation in between (counted to 2).
InitStore ==
    /\ env \in [use_pg : BOOLEAN, use_supabase : {FALSE}, models : {<<"m1">>}]
    /\ db \in FoundDbs
    /\ ss = SsOff
    /\ run = RunIdle
    /\ cs = CsIdle
    /\ procs = [inited |-> FALSE, init_runs |-> 0]
    /\ hist = HistOff

StoreInitDb ==
    /\ db' = init_db(db)
    /\ procs' = [inited |-> TRUE,
                 init_runs |-> IF procs.init_runs = 0 THEN 1 ELSE 2]
    /\ UNCHANGED <<env, ss, run, cs, hist>>

StoreSetBasePrompt ==
    /\ procs.inited
    /\ procs' = [procs EXCEPT !.init_runs = 0]
    /\ \E prompt \in PromptTexts : db' = set_base_system_prompt(db, prompt)
    /\ UNCHANGED <<env, ss, run, cs, hist>>

\* name is UNIQUE: a second assignment of the same name is not inserted.
StoreAddAssignment ==
    /\ procs.inited
    /\ procs' = [procs EXCEPT !.init_runs = 0]
    /\ Cardinality(db.assignments) < MaxAssignments
    /\ \E name \in AssignmentNames, prompt \in PromptTexts :
           /\ \A a \in db.assignments : a.name # name
           /\ db' = add_assignment(db, name, prompt)
    /\ UNCHANGED <<env, ss, run, cs, hist>>

StoreUpdateAssignmentPrompt ==
    /\ procs.inited
    /\ procs' = [procs EXCEPT !.init_runs = 0]
    /\ \E a \in db.assignments, prompt \in PromptTexts :
           db' = update_assignment_prompt(db, a.id, prompt)
    /\ UNCHANGED <<env, ss, run, cs, hist>>

StoreSetActiveAssignment ==
    /\ procs.inited
    /\ procs' = [procs EXCEPT !.init_runs = 0]
    /\ \E a \in db.assignments : db' = set_active_assignment(db, a.id)
    /\ UNCHANGED <<env, ss, run, cs, hist>>

\* create_conversation as the chat page calls it: the current base prompt and
\* the active assignment are the snapshot.
StoreCreateConversation ==
    /\ procs.inited
    /\ procs' = [procs EXCEPT !.init_runs = 0]
    /\ Cardinality(db.conversations) < MaxStoreConvs
    /\ LET a == get_active_assignment(db)
           d0 == get_active_assignment_db(db)
           base_prompt == get_base_system_prompt(d0, DEFAULT_BASE_PROMPT)
           assignment_prompt == OrEmpty(a.prompt)
           d1 == create_conversation(d0, "stud1", "student", "New conversation", "m1", _combined_prompt(base_prompt, assignment_prompt), base_prompt, a.id, a.name, assignment_prompt)
       IN  /\ db' = d1
           /\ hist' = [hist EXCEPT !.snap = @ \cup get_conversation(d1, d1.last_insert_rowid)]
    /\ UNCHANGED <<env, ss, run, cs>>

StoreTouchConversation ==
    /\ procs.inited
    /\ procs' = [procs EXCEPT !.init_runs = 0]
    /\ \E c \in db.conversations, title \in {None} \cup Titles, model \in {None, "m2"},
          system_prompt \in SystemPrompts :
           db' = touch_conversation(db, c.id, title, model, system_prompt)
    /\ UNCHANGED <<env, ss, run, cs, hist>>

NextStore ==
    \/ StoreInitDb
    \/ StoreSetBasePrompt
    \/ StoreAddAssignment
    \/ StoreUpdateAssignmentPrompt
    \/ StoreSetActiveAssignment
    \/ StoreCreateConversation
    \/ StoreTouchConversation

SpecStore == InitStore /\ [][NextStore]_vars

(***************************************************************************)
(* SpecConc: two sessions on one conversation, interleaved between the SQL *)
(* statements that _exec commits one by one.  The sender runs add_message  *)
(* and add_attachment, the editor runs delete_messages_after.              *)
(***************************************************************************)
ConcConv == 1

InitConc ==
    /\ env \in [use_pg : BOOLEAN, use_supabase : {FALSE}, models : {<<"m1">>}]
    /\ db = create_conversation(init_db(EmptyDb), "admin1", "admin", "New conversation", "m1", <<>>, <<>>, NoId, None, NullText)
    /\ ss = SsOff
    /\ run = RunIdle
    /\ cs = CsIdle
    /\ procs = [sender |-> [pc |-> "idle", message_id |-> NoId],
                editor |-> [pc |-> "idle", message_id |-> NoId, msg_ids |-> {}]]
    /\ hist = HistOff

\* add_message: the INSERT (with RETURNING id on Postgres).
ConcInsertMessage ==
    /\ procs.sender.pc = "idle"
    /\ next_id(db, "messages") <= MaxConcMsgId
    /\ LET d1 == add_message(db, ConcConv, "user", <<"u1">>)
       IN  /\ db' = d1
           /\ procs' = IF env.use_pg
                       THEN [procs EXCEPT !.sender.pc = "got_id",
                                          !.sender.message_id = d1.last_insert_rowid]
                       ELSE [procs EXCEPT !.sender.pc = "inserted"]
    /\ UNCHANGED <<env, ss, run, cs, hist>>

\* add_message on SQLite: SELECT last_insert_rowid() AS id
ConcLastRowid ==
    /\ procs.sender.pc = "inserted"
    /\ procs' = [procs EXCEPT !.sender.pc = "got_id",
                              !.sender.message_id = db.last_insert_rowid]
    /\ UNCHANGED <<env, db, ss, run, cs, hist>>

\* add_attachment(message_id, ...): the INSERT.
ConcAddAttachment ==
    /\ procs.sender.pc = "got_id"
    /\ next_id(db, "attachments") <= MaxConcAttId
    /\ db' = add_attachment(db, procs.sender.message_id, "file", "a.txt", "text/plain",
                            "bytes-a", <<"text of", "a.txt">>)
    /\ procs' = [procs EXCEPT !.sender.pc = "attached"]
    /\ hist' = [hist EXCEPT !.late =
                    @ \/ ~\E m \in db.messages : m.id = procs.sender.message_id]
    /\ UNCHANGED <<env, ss, run, cs>>

\* The submission has no (more) files.
ConcSendDone ==
    /\ procs.sender.pc \in {"got_id", "attached"}
    /\ procs' = [procs EXCEPT !.sender.pc = "idle", !.sender.message_id = NoId]
    /\ UNCHANGED <<env, db, ss, run, cs, hist>>

\* delete_messages_after, first statement: SELECT id FROM messages WHERE ...
ConcSelectAfter ==
    /\ procs.editor.pc = "idle"
    /\ \E m \in {x.id : x \in db.messages} :
           procs' = [procs EXCEPT !.editor.pc = "selected", !.editor.message_id = m,
                                  !.editor.msg_ids = select_messages_after(db, ConcConv, m)]
    /\ UNCHANGED <<env, db, ss, run, cs, hist>>

\* if msg_ids: DELETE FROM attachments WHERE message_id IN (...)
ConcDeleteAttachments ==
    /\ procs.editor.pc = "selected"
    /\ db' = IF procs.editor.msg_ids # {}
             THEN delete_attachments_in(db, procs.editor.msg_ids) ELSE db
    /\ procs' = [procs EXCEPT !.editor.pc = "attachments_deleted"]
    /\ UNCHANGED <<env, ss, run, cs, hist>>

\* DELETE FROM messages WHERE conversation_id = ? AND id > ?
ConcDeleteMessages ==
    /\ procs.editor.pc = "attachments_deleted"
    /\ db' = delete_messages_gt(db, ConcConv, procs.editor.message_id)
    /\ procs' = [procs EXCEPT !.editor.pc = "idle", !.editor.message_id = NoId,
                              !.editor.msg_ids = {}]
    /\ UNCHANGED <<env, ss, run, cs, hist>>

NextConc ==
    \/ ConcInsertMessage
    \/ ConcLastRowid
    \/ ConcAddAttachment
    \/ ConcSendDone
    \/ ConcSelectAfter
    \/ ConcDeleteAttachments
    \/ ConcDeleteMessages

SpecConc == InitConc /\ [][NextConc]_vars


(***************************************************************************)
(* SpecAttach: add_attachment and list_attachments_for_message_ids called  *)
(* in any order, with and without object storage configured, on a table    *)
(* that may already hold an external row and an inline row.                *)
(***************************************************************************)
AttachMsgIds == {1, 2}
AttachBytes == {"", "bytes-a"}
\* The table as earlier deployments left it: a row whose object is in the
\* bucket (data NULL) and a row holding its bytes.
StoredAttachments(d, external, inline) ==
    LET d1 == IF external
              THEN insert_row(d, "attachments",
                              [id |-> NoId, message_id |-> 1, kind |-> "file",
                               filename |-> "e.txt", mime |-> "text/plain",
                               data |-> None, text_content |-> <<"text of", "e.txt">>,
                               bucket |-> "bucket", path |-> "m1/e.txt"])
              ELSE d
    IN  IF inline
        THEN insert_row(d1, "attachments",
                        [id |-> NoId, message_id |-> 1, kind |-> "image",
                         filename |-> "s.png", mime |-> "image/png",
                         data |-> "bytes-s", text_content |-> NullText,
                         bucket |-> None, path |-> None])
        ELSE d1

InitAttach ==
    /\ env \in [use_pg : BOOLEAN, use_supabase : BOOLEAN, models : {<<"m1">>}]
    /\ \E external \in BOOLEAN, inline \in BOOLEAN :
           db = StoredAttachments(add_message(add_message(create_conversation(init_db(EmptyDb), "stud1", "student", "New conversation", "m1", <<>>, <<>>, NoId, None, NullText), 1, "user", <<"u1">>), 1, "user", <<"u1">>), external, inline)
    /\ ss = SsOff
    /\ run = RunIdle
    /\ cs = CsIdle
    /\ procs = [pc |-> "idle", before |-> {}, ids |-> {},
                args |-> [message_id |-> NoId, kind |-> None, filename |-> None,
                          mime |-> None, data |-> None, text_content |-> NullText],
                got |-> [mid \in AttachMsgIds |-> <<>>], store_called |-> FALSE,
                written |-> {}]
    /\ hist = HistOff

\* add_attachment(message_id, kind, filename, mime, data, text_content) as
\* _chat_page calls it for one uploaded file; the object store is called when
\* the client is there.
AttachAdd ==
    /\ next_id(db, "attachments") <= MaxAttachId
    /\ \E message_id \in AttachMsgIds, f \in {TextFile, ImageFile}, data \in AttachBytes :
           LET kind == IF is_image_mime(f.mime) THEN "image" ELSE "file"
               text_content == IF kind = "file" THEN extract_text_from_bytes(f)
                               ELSE NullText
               d1 == add_attachment(db, message_id, kind, f.filename, f.mime, data,
                                    text_content)
           IN  /\ db' = d1
               /\ procs' = [procs EXCEPT
                     !.pc = IF add_attachment_raises THEN "raised" ELSE "returned",
                     !.before = db.attachments,
                     !.args = [message_id |-> message_id, kind |-> kind,
                               filename |-> f.filename, mime |-> f.mime,
                               data |-> data, text_content |-> text_content],
                     !.store_called = @ \/ supabase_configured,
                     !.written = @ \cup ({a.id : a \in d1.attachments}
                                           \ {a.id : a \in db.attachments})]
    /\ UNCHANGED <<env, ss, run, cs, hist>>

\* list_attachments_for_message_ids(message_ids)
AttachList ==
    /\ \E message_ids \in SUBSET AttachMsgIds :
           LET out == list_attachments_for_message_ids(db, message_ids)
           IN  procs' = [procs EXCEPT
                 !.pc = "listed",
                 !.ids = message_ids,
                 !.got = [mid \in AttachMsgIds |->
                             IF mid \in message_ids THEN out[mid] ELSE <<>>],
                 !.store_called = @ \/ \E a \in db.attachments :
                                          a.message_id \in message_ids /\ fetches_object(a)]
    /\ UNCHANGED <<env, db, ss, run, cs, hist>>

NextAttach ==
    \/ AttachAdd
    \/ AttachList

SpecAttach == InitAttach /\ [][NextAttach]_vars

(***************************************************************************)
(* SpecSession: logins, cookie lookups and logouts while the clock runs.   *)
(***************************************************************************)
InitSession ==
    /\ env \in [use_pg : BOOLEAN, use_supabase : {FALSE}, models : {<<"m1">>}]
    /\ db = init_db(EmptyDb)
    /\ ss = SsOff
    /\ run = RunIdle
    /\ cs = CsIdle
    /\ procs = [now |-> 0, issued |-> 0, pc |-> "idle", token |-> NoSession.token, at |-> 0,
                out |-> NoSession, before |-> {}, expired |-> {}]
    /\ hist = HistOff

\* _login: create_session(user_id, role)
SessionCreate ==
    /\ procs.issued < MaxTokens
    /\ \E a \in Accounts :
           /\ db' = create_session(db, procs.issued + 1, a.user_id, a.role,
                                   DefaultSessionHours, procs.now)
           /\ procs' = [procs EXCEPT !.issued = @ + 1, !.pc = "created",
                                     !.token = procs.issued + 1, !.out = NoSession,
                                     !.before = db.sessions]
    /\ UNCHANGED <<env, ss, run, cs, hist>>

\* The page start with a cookie: get_session(token), for any token a browser
\* may hold.  expired remembers the tokens a lookup found expired.
SessionGet ==
    /\ \E token \in 1..MaxTokens :
           LET g == get_session(db, token, procs.now)
               rows == {r \in db.sessions : r.token = token}
           IN  /\ db' = g.db
               /\ procs' = [procs EXCEPT
                     !.pc = "got", !.token = token, !.at = procs.now, !.out = g.out,
                     !.before = db.sessions,
                     !.expired = @ \cup {r.token : r \in
                                     {x \in rows : fromisoformat(x.expires_at) < procs.now}}]
    /\ UNCHANGED <<env, ss, run, cs, hist>>

\* _logout: delete_session(token)
SessionDelete ==
    /\ \E r \in db.sessions :
           /\ db' = delete_session(db, r.token)
           /\ procs' = [procs EXCEPT !.pc = "deleted", !.token = r.token,
                                     !.out = NoSession, !.before = db.sessions]
    /\ UNCHANGED <<env, ss, run, cs, hist>>

\* datetime.now(timezone.utc) moves on.
SessionTick ==
    /\ procs.now < MaxNow
    /\ procs' = [procs EXCEPT !.now = @ + 1]
    /\ UNCHANGED <<env, db, ss, run, cs, hist>>

NextSession ==
    \/ SessionCreate
    \/ SessionGet
    \/ SessionDelete
    \/ SessionTick

SpecSession == InitSession /\ [][NextSession]_vars

(***************************************************************************)
(* SpecTouch: touch_conversation with every combination of passed and      *)
(* omitted arguments on a store of two conversations, while time passes.   *)
(***************************************************************************)
InitTouch ==
    /\ env \in [use_pg : BOOLEAN, use_supabase : {FALSE}, models : {<<"m1">>}]
    /\ db = create_conversation(create_conversation(init_db(EmptyDb), "stud1", "student", "New conversation", "m1", <<"D">>, <<"D">>, NoId, None, NullText), "admin1", "admin", "New conversation", "m1", <<"D">>, <<"D">>, NoId, None, NullText)
    /\ ss = SsOff
    /\ run = RunIdle
    /\ cs = CsIdle
    /\ procs = [pc |-> "idle", before |-> {},
                args |-> [conversation_id |-> NoId, title |-> None, model |-> None,
                          system_prompt |-> NullText, now |-> 0]]
    /\ hist = HistOff

\* touch_conversation(conversation_id, title, model, system_prompt), each of
\* the three passed or left None; conversation 3 does not exist.
TouchCall ==
    /\ \E conversation_id \in {1, 2, 3}, title \in {None} \cup Titles,
          model \in {None, "m2"}, system_prompt \in SystemPrompts :
           /\ db' = touch_conversation(db, conversation_id, title, model, system_prompt)
           /\ procs' = [pc |-> "touched", before |-> db.conversations,
                        args |-> [conversation_id |-> conversation_id, title |-> title,
                                  model |-> model, system_prompt |-> system_prompt,
                                  now |-> db.clock]]
    /\ UNCHANGED <<env, ss, run, cs, hist>>

\* datetime.now(timezone.utc) moves on.
TouchTick ==
    /\ db.clock < MaxClock
    /\ db' = [db EXCEPT !.clock = @ + 1]
    /\ UNCHANGED <<env, ss, run, cs, procs, hist>>

NextTouch ==
    \/ TouchCall
    \/ TouchTick

SpecTouch == InitTouch /\ [][NextTouch]_vars

(***************************************************************************)
(* SpecBoot: two script runs start together and both execute init_db, one  *)
(* SQL statement at a time, on a database that is empty or older.  A step  *)
(* that the database rejects ends that run's init_db with the exception.   *)
(***************************************************************************)
InitBoot ==
    /\ env \in [use_pg : BOOLEAN, use_supabase : {FALSE}, models : {<<"m1">>}]
    /\ db \in FoundDbs
    /\ ss = SsOff
    /\ run = RunIdle
    /\ cs = CsIdle
    /\ procs = [found_empty |-> db = EmptyDb,
                boot |-> [p \in {1, 2} |->
                            [pc |-> "start", col |-> 1, old |-> NullText,
                             new_id |-> NoId,
                             row |-> [id |-> NoId, name |-> None, prompt |-> NullText]]]]
    /\ hist = HistOff

\* init_db's own statements: the CREATE TABLE IF NOT EXISTS block; the two
\* get_setting reads of the prompt migration (only init_db writes these keys
\* here, and it writes what the second read returned); its set_setting.
Boot_init_db ==
    \E p \in {1, 2} :
        LET b == procs.boot[p]
        IN  /\ UNCHANGED <<env, ss, run, cs, hist>>
            /\ \/ /\ b.pc = "start"
                  /\ db' = create_tables(db)
                  /\ procs' = [procs EXCEPT !.boot[p].pc = "has_column"]
               \/ /\ b.pc = "migrate"
                  /\ db' = db
                  /\ procs' =
                       IF get_setting(db, "base_system_prompt", NullText) = NullText
                          /\ get_setting(db, "global_system_prompt", NullText) # NullText
                       THEN [procs EXCEPT !.boot[p].pc = "set_base",
                                !.boot[p].old = get_setting(db, "global_system_prompt", NullText)]
                       ELSE [procs EXCEPT !.boot[p].pc = "list"]
               \/ /\ b.pc = "set_base"
                  /\ db' = set_setting(db, "base_system_prompt", b.old)
                  /\ procs' = [procs EXCEPT !.boot[p].pc = "list"]

\* _add_column for the next column, in the order of the calls in init_db: the
\* _has_column query, then the ALTER
\* TABLE, which the database rejects when the column is there by now.
Boot_add_column ==
    \E p \in {1, 2} :
        LET b == procs.boot[p]
            col == <<"conversations.base_prompt", "conversations.assignment_id",
                     "conversations.assignment_name", "conversations.assignment_prompt",
                     "assignments.prompt", "attachments.bucket", "attachments.path">>[b.col]
            next == IF b.col < Cardinality(MigratedColumns)
                    THEN [b EXCEPT !.pc = "has_column", !.col = @ + 1]
                    ELSE [b EXCEPT !.pc = "migrate"]
        IN  /\ UNCHANGED <<env, ss, run, cs, hist>>
            /\ \/ /\ b.pc = "has_column"
                  /\ db' = db
                  /\ procs' = IF col \in db.schema.columns
                              THEN [procs EXCEPT !.boot[p] = next]
                              ELSE [procs EXCEPT !.boot[p].pc = "alter"]
               \/ /\ b.pc = "alter"
                  /\ col \in db.schema.columns
                  /\ db' = db
                  /\ procs' = [procs EXCEPT !.boot[p].pc = "raised"]
               \/ /\ b.pc = "alter"
                  /\ col \notin db.schema.columns
                  /\ db' = [db EXCEPT !.schema.columns = @ \cup {col}]
                  /\ procs' = [procs EXCEPT !.boot[p] = next]

\* _ensure_default_assignment: list_assignments; with rows the get_setting and
\* perhaps the set_setting; without rows the INSERT of "Assignment 1", which
\* the UNIQUE name rejects when the row is there by now, the
\* SELECT last_insert_rowid() of SQLite, and the set_setting.
Boot_ensure_default_assignment ==
    \E p \in {1, 2} :
        LET b == procs.boot[p]
        IN  /\ UNCHANGED <<env, ss, run, cs, hist>>
            /\ \/ /\ b.pc = "list"
                  /\ db' = db
                  /\ procs' = IF list_assignments(db) # <<>>
                              THEN [procs EXCEPT !.boot[p].pc = "get_active",
                                       !.boot[p].new_id = list_assignments(db)[1].id]
                              ELSE [procs EXCEPT !.boot[p].pc = "insert"]
               \/ /\ b.pc = "get_active"
                  /\ db' = db
                  /\ procs' = IF get_setting(db, "active_assignment_id", NoId) = NoId
                              THEN [procs EXCEPT !.boot[p].pc = "set_active"]
                              ELSE [procs EXCEPT !.boot[p].pc = "backfill"]
               \/ /\ b.pc = "insert"
                  /\ \E a \in db.assignments : a.name = "Assignment 1"
                  /\ db' = db
                  /\ procs' = [procs EXCEPT !.boot[p].pc = "raised"]
               \/ /\ b.pc = "insert"
                  /\ ~\E a \in db.assignments : a.name = "Assignment 1"
                  /\ LET d1 == insert_row(db, "assignments",
                                          [id |-> NoId, name |-> "Assignment 1",
                                           prompt |-> <<>>])
                     IN  /\ db' = d1
                         /\ procs' = IF env.use_pg
                                     THEN [procs EXCEPT !.boot[p].pc = "set_active",
                                              !.boot[p].new_id = d1.last_insert_rowid]
                                     ELSE [procs EXCEPT !.boot[p].pc = "rowid"]
               \/ /\ b.pc = "rowid"
                  /\ db' = db
                  /\ procs' = [procs EXCEPT !.boot[p].pc = "set_active",
                                            !.boot[p].new_id = db.last_insert_rowid]
               \/ /\ b.pc = "set_active"
                  /\ db' = set_setting(db, "active_assignment_id", b.new_id)
                  /\ procs' = [procs EXCEPT !.boot[p].pc = "backfill"]

\* _backfill_conversation_assignments: the SELECT of "Assignment 1" (else of
\* the first assignment), then the UPDATE with the row that was read.
Boot_backfill_conversation_assignments ==
    \E p \in {1, 2} :
        LET b == procs.boot[p]
            named == {a \in db.assignments : a.name = "Assignment 1"}
            rows == IF named # {} THEN SeqById(named) ELSE list_assignments(db)
            missing(c) == \/ c.assignment_id = NoId
                          \/ c.assignment_name = None \/ c.assignment_name = ""
                          \/ c.assignment_prompt = NullText
                          \/ c.assignment_prompt = <<>>
        IN  /\ UNCHANGED <<env, ss, run, cs, hist>>
            /\ \/ /\ b.pc = "backfill"
                  /\ db' = db
                  /\ procs' = IF rows = <<>>
                              THEN [procs EXCEPT !.boot[p].pc = "done"]
                              ELSE [procs EXCEPT !.boot[p].pc = "update",
                                                 !.boot[p].row = rows[1]]
               \/ /\ b.pc = "update"
                  /\ db' = [db EXCEPT !.conversations =
                              {IF missing(c)
                               THEN backfill_row(c, b.row.id,
                                       IF b.row.name = "" THEN "Assignment 1"
                                       ELSE b.row.name,
                                       IF b.row.prompt = NullText THEN <<>>
                                       ELSE b.row.prompt)
                               ELSE c : c \in @}]
                  /\ procs' = [procs EXCEPT !.boot[p].pc = "done"]

NextBoot ==
    \/ Boot_init_db
    \/ Boot_add_column
    \/ Boot_ensure_default_assignment
    \/ Boot_backfill_conversation_assignments

SpecBoot == InitBoot /\ [][NextBoot]_vars

(***************************************************************************)
(* SpecPayload: an admin session on the chat page and the prompt editor,   *)
(* started on a store that already holds one conversation with a history   *)
(* of up to MaxHistory messages: written by this version (with a snapshot) *)
(* or left by an older deployment (without one).  A behaviour ends when a   *)
(* send or a Save & Regenerate has handed its payload to chat_stream.       *)
(***************************************************************************)
\* The rows the send path stores for a history of turns: add_message for each,
\* and for a user turn add_attachment of an image and a text file.
RECURSIVE stored_turns(_, _, _)
stored_turns(d, conversation_id, roles) ==
    IF roles = <<>> THEN d
    ELSE CHOOSE out \in
           {stored_turns(d3, conversation_id, Tail(roles)) :
              d3 \in {IF Head(roles) # "user" THEN d1
                      ELSE add_attachment(
                               add_attachment(d1, d1.last_insert_rowid, "image",
                                              ImageFile.filename, ImageFile.mime,
                                              ImageFile.raw, NullText),
                               d1.last_insert_rowid, "file", TextFile.filename,
                               TextFile.mime, TextFile.raw,
                               extract_text_from_bytes(TextFile)) :
                        d1 \in {add_message(d, conversation_id, Head(roles), <<"u1">>)}}}
           : TRUE

\* A conversation of admin1 as create_conversation stored it under the prompts
\* base and ap, or (legacy) as an older deployment left it.
FoundConversation(legacy, system_prompt, base, ap) ==
    LET old == [OldDb(NoId) EXCEPT !.conversations =
                   {[c EXCEPT !.user_id = "admin1", !.role = "admin",
                              !.system_prompt = system_prompt] : c \in @}]
        d0 == page_start(EmptyDb)
        d1 == update_assignment_prompt(
                  IF base = NullText THEN d0 ELSE set_base_system_prompt(d0, base),
                  get_active_assignment(d0).id, ap)
        a == get_active_assignment(d1)
        b == get_base_system_prompt(d1, DEFAULT_BASE_PROMPT)
    IN  IF legacy THEN page_start(old)
        ELSE create_conversation(d1, "admin1", "admin", "New conversation",
                                 _load_active_model(d1), _combined_prompt(b, OrEmpty(a.prompt)),
                                 b, a.id, a.name, OrEmpty(a.prompt))

InitPayload ==
    /\ env \in [use_pg : BOOLEAN, use_supabase : {FALSE}, models : {<<"m1">>}]
    /\ \E n \in 0..MaxHistory :
       \E roles \in [1..n -> {"user", "assistant"}] :
       \E legacy \in BOOLEAN, system_prompt \in SystemPrompts,
          base \in {NullText, <<"P">>}, ap \in PromptTexts :
           /\ legacy => base = NullText /\ ap = <<>>
           /\ ~legacy => system_prompt = NullText
           /\ \E found \in {FoundConversation(legacy, system_prompt, base, ap)} :
                  db = stored_turns(found, 1, roles)
           /\ procs = <<roles>>
    /\ ss = [SsOff EXCEPT !.user_id = "admin1", !.role = "admin"]
    /\ run = RunIdle
    /\ cs = CsIdle
    /\ hist = [HistOff EXCEPT !.snap = {c \in db.conversations : c.base_prompt # NullText}]

NextPayload ==
    \/ AdminSaveBasePrompt
    \/ AdminSaveAssignmentPrompt
    \/ PickConversation
    \/ ClickEdit
    \/ SaveRegenerate
    \/ Submit
    \/ AttachOk
    \/ BeginStream

SpecPayload == InitPayload /\ [][NextPayload]_vars


(***************************************************************************)
(* SpecList: list_conversations_admin called with every combination of     *)
(* filters on tables of three conversations.                               *)
(***************************************************************************)
InitList ==
    /\ env \in [use_pg : BOOLEAN, use_supabase : {FALSE}, models : {<<"m1">>}]
    /\ \E model \in [1..3 -> {"m1", "m2"}], at \in [1..3 -> 0..MaxClock] :
           db = [init_db(EmptyDb) EXCEPT !.conversations =
                   {[id |-> i,
                     user_id |-> <<<<"a", "b">>, <<"A", "x", "b">>, <<"c", "a">>>>[i],
                     role |-> <<"student", "student", "admin">>[i],
                     title |-> "T", model |-> model[i], system_prompt |-> <<"S">>,
                     base_prompt |-> <<"D">>, assignment_id |-> 1,
                     assignment_name |-> "Assignment 1", assignment_prompt |-> <<>>,
                     created_at |-> isoformat(0), updated_at |-> isoformat(at[i])]
                      : i \in 1..3}]
    /\ ss = SsOff
    /\ run = RunIdle
    /\ cs = CsIdle
    /\ procs = [pc |-> "start", args |-> <<>>, out |-> <<>>]
    /\ hist = HistOff

\* One call of list_conversations_admin(user_filter, role_filter, model_filter, limit).
ListAdmin ==
    /\ procs.pc = "start"
    /\ \E user_filter \in {NullText, <<>>, <<"a">>, <<"A", "B">>, <<"a", "_", "b">>},
          role_filter \in {None, "", "student"},
          model_filter \in {None, "m1"},
          limit \in {1, 200} :
       \E out \in list_conversations_admin(db, user_filter, role_filter, model_filter, limit) :
           procs' = [pc |-> "returned",
                     args |-> <<user_filter, role_filter, model_filter, limit>>,
                     out |-> out]
    /\ UNCHANGED <<env, db, ss, run, cs, hist>>

SpecList == InitList /\ [][ListAdmin]_vars

(***************************************************************************)
(* SpecUsers: one browser session from the first run on: the bootstrap     *)
(* form, sign-in, logout, the admin's Users tab, and a chat submission up   *)
(* to its user message.                                                    *)
(***************************************************************************)
InitUsers ==
    /\ env \in [use_pg : BOOLEAN, use_supabase : {FALSE}, models : {<<"m1">>}]
    /\ db = init_db(EmptyDb)
    /\ ss = SsOff
    /\ run = RunIdle
    /\ cs = CsIdle
    /\ procs = NoRequest
    /\ hist = HistOff

NextUsers ==
    \/ BootstrapAdmin
    \/ SignIn
    \/ Logout
    \/ AdminSaveUser
    \/ Submit
    \/ RunEnds

SpecUsers == InitUsers /\ [][NextUsers]_vars

(***************************************************************************)
(* SpecLoad: _load_conversation_into_state called with ids the store       *)
(* knows and ids it does not know, on the stored histories of SpecPayload. *)
(***************************************************************************)
\* One call _load_conversation_into_state(conversation_id).
LoadConversation ==
    /\ run.pc = "idle"
    /\ \E conversation_id \in 1..(MaxChatConvs + 1) :
           /\ ss' = _load_conversation_into_state(db, ss, conversation_id)
           /\ run' = [RunIdle EXCEPT !.pc = "done", !.outcome = "loaded",
                                     !.conv_id = conversation_id]
    /\ UNCHANGED <<env, db, cs, procs, hist>>

NextLoad ==
    \/ PickConversation
    \/ LoadConversation

SpecLoad == InitPayload /\ [][NextLoad]_vars

(***************************************************************************)
(* SpecSend: two sessions, each sending its first message (with or without *)
(* a file), interleaved between the SQL statements that _exec commits one  *)
(* by one.  On SQLite both use the one connection of _sqlite_singleton.    *)
(* own_conv, own_msg and own_att remember the ids the session's own        *)
(* INSERTs gave their rows.                                                *)
(***************************************************************************)
SendSessions == 1..2
SendUser(s) == <<"stud1", "admin1">>[s]
SendRole(s) == <<"student", "admin">>[s]

InitSend ==
    /\ env \in [use_pg : BOOLEAN, use_supabase : {FALSE}, models : {<<"m1">>}]
    /\ db = init_db(EmptyDb)
    /\ ss = SsOff
    /\ run = RunIdle
    /\ cs = CsIdle
    /\ procs = [s \in SendSessions |->
                   [pc |-> "idle", conv_id |-> NoId, user_msg_id |-> NoId,
                    own_conv |-> NoId, own_msg |-> NoId, own_att |-> NoId]]
    /\ hist = HistOff

\* create_conversation: the INSERT (with RETURNING id on Postgres).
SendInsertConversation ==
    \E s \in SendSessions :
        /\ procs[s].pc = "idle"
        /\ LET a == get_active_assignment(db)
               d1 == create_conversation(db, SendUser(s), SendRole(s), "New conversation", "m1", <<"D">>, <<"D">>, a.id, a.name, <<>>)
           IN  /\ db' = d1
               /\ procs' = [procs EXCEPT
                     ![s].own_conv = d1.last_insert_rowid,
                     ![s].conv_id = IF env.use_pg THEN d1.last_insert_rowid ELSE NoId,
                     ![s].pc = IF env.use_pg THEN "conv_id" ELSE "conv_inserted"]
        /\ UNCHANGED <<env, ss, run, cs, hist>>

\* create_conversation on SQLite: SELECT last_insert_rowid() AS id
SendConversationRowid ==
    \E s \in SendSessions :
        /\ procs[s].pc = "conv_inserted"
        /\ procs' = [procs EXCEPT ![s].conv_id = db.last_insert_rowid,
                                  ![s].pc = "conv_id"]
        /\ UNCHANGED <<env, db, ss, run, cs, hist>>

\* add_message(conv_id, "user", user_text): the INSERT.
SendInsertMessage ==
    \E s \in SendSessions :
        /\ procs[s].pc = "conv_id"
        /\ LET d1 == add_message(db, procs[s].conv_id, "user", <<"u1">>)
           IN  /\ db' = d1
               /\ procs' = [procs EXCEPT
                     ![s].own_msg = d1.last_insert_rowid,
                     ![s].user_msg_id = IF env.use_pg THEN d1.last_insert_rowid ELSE NoId,
                     ![s].pc = IF env.use_pg THEN "msg_id" ELSE "msg_inserted"]
        /\ UNCHANGED <<env, ss, run, cs, hist>>

\* add_message on SQLite: SELECT last_insert_rowid() AS id
SendMessageRowid ==
    \E s \in SendSessions :
        /\ procs[s].pc = "msg_inserted"
        /\ procs' = [procs EXCEPT ![s].user_msg_id = db.last_insert_rowid,
                                  ![s].pc = "msg_id"]
        /\ UNCHANGED <<env, db, ss, run, cs, hist>>

\* add_attachment(message_id = user_msg_id, ...) for the file of the submission.
SendAddAttachment ==
    \E s \in SendSessions :
        /\ procs[s].pc = "msg_id"
        /\ LET d1 == add_attachment(db, procs[s].user_msg_id, "file", "a.txt", "text/plain",
                                    "bytes-a", <<"text of", "a.txt">>)
           IN  /\ db' = d1
               /\ procs' = [procs EXCEPT ![s].own_att = d1.last_insert_rowid,
                                         ![s].pc = "sent"]
        /\ UNCHANGED <<env, ss, run, cs, hist>>

\* The submission has no file.
SendNoFile ==
    \E s \in SendSessions :
        /\ procs[s].pc = "msg_id"
        /\ procs' = [procs EXCEPT ![s].pc = "sent"]
        /\ UNCHANGED <<env, db, ss, run, cs, hist>>

NextSend ==
    \/ SendInsertConversation
    \/ SendConversationRowid
    \/ SendInsertMessage
    \/ SendMessageRowid
    \/ SendAddAttachment
    \/ SendNoFile

SpecSend == InitSend /\ [][NextSend]_vars

(***************************************************************************)
(* SpecIds: add_message, add_attachment and delete_messages_after called   *)
(* one after another on two conversations.  procs.deleted remembers every  *)
(* message id that delete_messages_after has removed, procs.added the id   *)
(* the last add_message returned.                                          *)
(***************************************************************************)
InitIds ==
    /\ env \in [use_pg : BOOLEAN, use_supabase : {FALSE}, models : {<<"m1">>}]
    /\ \E d0 \in {init_db(EmptyDb)} :
       \E a \in {get_active_assignment(d0)} :
       \E d1 \in {create_conversation(d0, "admin1", "admin", "New conversation", "m1", <<"D">>, <<"D">>, a.id, a.name, <<>>)} :
           db = create_conversation(d1, "stud1", "student", "New conversation", "m1", <<"D">>, <<"D">>, a.id, a.name, <<>>)
    /\ ss = SsOff
    /\ run = RunIdle
    /\ cs = CsIdle
    /\ procs = [deleted |-> {}, added |-> NoId]
    /\ hist = HistOff

\* add_message(conversation_id, role, content)
IdsAddMessage ==
    /\ next_id(db, "messages") <= MaxMsgId
    /\ \E conversation_id \in 1..MaxChatConvs, role \in {"user", "assistant"} :
           LET d1 == add_message(db, conversation_id, role, <<"u1">>)
           IN  /\ db' = d1
               /\ procs' = [procs EXCEPT !.added = d1.last_insert_rowid]
    /\ UNCHANGED <<env, ss, run, cs, hist>>

\* add_attachment(message_id, ...) on a stored user message.
IdsAddAttachment ==
    /\ next_id(db, "attachments") <= MaxAttachId
    /\ \E m \in db.messages :
           /\ m.role = "user"
           /\ db' = add_attachment(db, m.id, "file", "a.txt", "text/plain", "bytes-a",
                                   <<"text of", "a.txt">>)
    /\ procs' = [procs EXCEPT !.added = NoId]
    /\ UNCHANGED <<env, ss, run, cs, hist>>

\* delete_messages_after(conversation_id, message_id)
IdsDeleteAfter ==
    /\ \E conversation_id \in 1..MaxChatConvs, m \in db.messages :
           LET d1 == delete_messages_after(db, conversation_id, m.id)
           IN  /\ db' = d1
               /\ procs' = [deleted |-> procs.deleted
                                \cup ({x.id : x \in db.messages} \ {x.id : x \in d1.messages}),
                            added |-> NoId]
    /\ UNCHANGED <<env, ss, run, cs, hist>>

NextIds ==
    \/ IdsAddMessage
    \/ IdsAddAttachment
    \/ IdsDeleteAfter

SpecIds == InitIds /\ [][NextIds]_vars

(***************************************************************************)
(* SpecAssign: init_db on the stores a process may find, assignments added *)
(* and activated, and create_conversation called with any of its           *)
(* assignment arguments given or left out.                                 *)
(***************************************************************************)
\* create_conversation(user_id, role, title, model, system_prompt,
\* base_prompt[, assignment_id][, assignment_name][, assignment_prompt])
StoreCreateConversationBare ==
    /\ procs.inited
    /\ procs' = [procs EXCEPT !.init_runs = 0]
    /\ Cardinality(db.conversations) <= MaxStoreConvs
    /\ \E assignment_id \in {NoId} \cup {a.id : a \in db.assignments},
          assignment_name \in {None, "Assignment 2"},
          assignment_prompt \in {NullText, <<"Q">>} :
           LET d1 == create_conversation(db, "stud1", "student", "New conversation", "m1", <<"D">>, <<"D">>, assignment_id, assignment_name, assignment_prompt)
           IN  /\ db' = d1
               /\ run' = [RunIdle EXCEPT
                             !.conv_id = d1.last_insert_rowid,
                             !.outcome = IF assignment_id = NoId /\ assignment_name = None
                                         THEN "created_omitted" ELSE "created"]
    /\ UNCHANGED <<env, ss, cs, hist>>

NextAssign ==
    \/ StoreInitDb
    \/ StoreAddAssignment
    \/ StoreSetActiveAssignment
    \/ StoreCreateConversationBare

SpecAssign == InitStore /\ [][NextAssign]_vars

(***************************************************************************)
(* Properties.                                                             *)
(***************************************************************************)
SnapshotOf(c) ==
    [base_prompt |-> c.base_prompt, assignment_id |-> c.assignment_id,
     assignment_name |-> c.assignment_name, assignment_prompt |-> c.assignment_prompt]

\* C1 (SpecStore): the snapshot fields of every conversation row (base_prompt,
\* assignment_id, assignment_name, assignment_prompt) are the ones
\* create_conversation stored, whatever set_base_system_prompt,
\* update_assignment_prompt, add_assignment, set_active_assignment,
\* touch_conversation and init_db calls came later.
C1_SnapshotFrozen ==
    \A s \in hist.snap :
        \E c \in db.conversations : c.id = s.id /\ SnapshotOf(s) = SnapshotOf(c)

\* C2 (SpecConc): no reader sees an attachment whose message_id names no
\* message, at any point during or after delete_messages_after, while another
\* session adds a message and an attachment between its statements.  (An
\* attachment the sender wrote for a message that was already gone is not the
\* deletion's doing and is left out.)
C2_NoOrphanAttachments ==
    ~hist.late =>
        \A a \in db.attachments : \E m \in db.messages : m.id = a.message_id

\* ids, roles and contents, in order
HistoryView(msgs) ==
    [i \in 1..Len(msgs) |->
        [id |-> msgs[i].id, role |-> msgs[i].role, content |-> msgs[i].content]]

\* C3 (SpecChat): whenever a payload has been built for conversation c (send
\* path and Save & Regenerate path), st.session_state["messages"] holds the same
\* ids, roles and contents, in the same order, as get_conversation_messages(c).
C3_HistoryMatchesStore ==
    run.pc \in {"send_stream", "regen_stream"} =>
        HistoryView(ss.messages)
            = HistoryView(get_conversation_messages(db, run.conv_id))

\* The conversation of the edit target holds the k - 1 messages that were
\* before the target, unchanged, then the target with the draft as content.
EditedPrefix(msgs) ==
    /\ Len(msgs) >= hist.edit.k
    /\ SubSeq(msgs, 1, hist.edit.k - 1) = hist.edit.before
    /\ msgs[hist.edit.k].id = hist.edit.target
    /\ msgs[hist.edit.k].role = "user"
    /\ msgs[hist.edit.k].content = hist.edit.draft

\* C4 (SpecChat): saving an edit of the k-th message of a conversation leaves
\* exactly k messages in that conversation before regeneration (the target with
\* its new content plus the k - 1 messages before it), and exactly k + 1 after
\* a successful regeneration, the last one being the new assistant reply.
C4_EditLeavesK ==
    LET msgs == get_conversation_messages(db, hist.edit.conv)
    IN  /\ (hist.edit.conv # NoId
            /\ (run.pc \in {"regen_stream", "regen_streamed"}
                \/ (run.pc = "done" /\ run.outcome = "regen_failed")))
           => (Len(msgs) = hist.edit.k /\ EditedPrefix(msgs))
        /\ (hist.edit.conv # NoId /\ run.pc = "done" /\ run.outcome = "regen_ok")
           => /\ Len(msgs) = hist.edit.k + 1
              /\ EditedPrefix(msgs)
              /\ msgs[Len(msgs)].role = "assistant"
              /\ msgs[Len(msgs)].content = run.full

NoOrphans(d) == \A a \in d.attachments : \E m \in d.messages : m.id = a.message_id

\* C5 (SpecChat): on every reachable store, for every conversation c and every
\* m, after delete_messages_after(c, m) the messages of c are exactly those
\* with id <= m and every other conversation's are as before, a second call
\* with the same arguments changes nothing, and every attachment's message_id
\* names a surviving message.
C5_DeleteAfterIdempotent ==
    \A c \in 0..MaxChatConvs, m \in 0..MaxMsgId :
        LET d1 == delete_messages_after(db, c, m)
            d2 == delete_messages_after(d1, c, m)
        IN  /\ d1.messages = {x \in db.messages : x.conversation_id # c \/ x.id <= m}
            /\ d2 = d1
            /\ NoOrphans(d1)
            /\ d1.attachments \subseteq db.attachments

\* A store where delete_messages_after removes messages and their attachments.
C5_Witness ==
    \E c \in 0..MaxChatConvs, m \in 1..MaxMsgId :
        LET d1 == delete_messages_after(db, c, m)
        IN  /\ d1.messages # db.messages
            /\ d1.attachments # db.attachments
            /\ \E x \in d1.messages : x.conversation_id = c

\* The user turn of the running send is in the store with each of its files.
UserTurnStored ==
    /\ \E m \in db.messages :
           /\ m.id = run.user_msg_id
           /\ m.conversation_id = run.conv_id
           /\ m.role = "user"
           /\ m.content = run.text
    /\ LET atts == list_attachments_for_message_ids(db, {run.user_msg_id})[run.user_msg_id]
       IN  /\ Len(atts) = Len(run.sent)
           /\ \A i \in 1..Len(atts) :
                  /\ atts[i].filename = run.sent[i].filename
                  /\ atts[i].mime = run.sent[i].mime
                  /\ atts[i].data = run.sent[i].raw

\* C6 (SpecChat): in the send path, once chat_stream has been called the user
\* message and every file of the submission are in the store, and they are
\* still there when the model call has failed.
C6_DurableBeforeNetwork ==
    (run.pc \in {"send_stream", "send_streamed"}
     \/ (run.pc = "done" /\ run.outcome \in {"send_failed", "send_ok"}))
    => (run.files = <<>> /\ UserTurnStored)

\* The model call failed after two files were stored.
C6_Witness ==
    /\ run.pc = "done"
    /\ run.outcome = "send_failed"
    /\ Len(run.sent) = 2
    /\ UserTurnStored

AssistantRows(d) == {m \in d.messages : m.role = "assistant"}

\* C7 (SpecChat): a step adds an assistant message only from a completed
\* stream (send path or Save & Regenerate path): the one row holds the whole
\* text; a step that ends a stream still open, by a failed request or an
\* interruption part-way, adds no message at all.
C7_AssistantOnlyAfterStream ==
    [][/\ (AssistantRows(db') \ AssistantRows(db) # {})
          => /\ run.pc \in {"send_streamed", "regen_streamed"}
             /\ \E m \in db'.messages :
                    /\ AssistantRows(db') \ AssistantRows(db) = {m}
                    /\ m.conversation_id = run.conv_id
                    /\ m.content = run.full
       /\ (run.pc \in {"send_stream", "regen_stream"} /\ run'.pc = "done")
          => db'.messages = db.messages
       /\ (run'.pc \in {"send_streamed", "regen_streamed"} /\ run'.pc # run.pc)
          => run.pc \in {"send_stream", "regen_stream"}]_vars

\* A stream broke after part of the text had arrived; the conversation has no reply.
C7_Witness ==
    /\ run.pc = "done"
    /\ run.outcome \in {"send_failed", "regen_failed"}
    /\ run.full # <<>>
    /\ ~\E m \in AssistantRows(db) : m.conversation_id = run.conv_id

\* C8 (SpecStream): one chat_stream call sends at most two POSTs; the second
\* only after the first returned a client error while think was set; it omits
\* think and is otherwise the first request again; when the second response is
\* an error too, the call raises and sends nothing more.
C8_RetryOnce ==
    /\ Len(cs.posts) <= 2
    /\ Len(cs.posts) = 2 =>
         /\ cs.think # None
         /\ cs.resps[1].status \in 400..499
         /\ cs.posts[1].body.think = cs.think
         /\ cs.posts[2].body.think = None
         /\ cs.posts[2] = [cs.posts[1] EXCEPT !.body.think = None]
    /\ (Len(cs.resps) = 2 /\ cs.resps[2].status >= 400 /\ cs.pc # "responded")
         => (cs.pc = "raised" /\ cs.error = "http")

\* The retry failed as well and the error was raised.
C8_Witness ==
    /\ Len(cs.posts) = 2
    /\ Len(cs.resps) = 2
    /\ cs.resps[2].status >= 400
    /\ cs.pc = "raised"

\* C9 as stated (SpecStream): a request is retried only when the body of the
\* client error concerns the think field.
C9_RetryOnlyWhenBodyRejectsThink ==
    Len(cs.posts) = 2 => cs.resps[1].mentions_think

\* C9 (SpecStream): a request is retried only when think was set and the first
\* response's status is 400 or 422, whatever its body says, and then always;
\* think not set, any other error status, or a failure of the connection is
\* surfaced without a retry.
C9_RetryOn400Or422 ==
    /\ Len(cs.posts) = 2 => (cs.think # None /\ cs.resps[1].status \in {400, 422})
    /\ (Len(cs.posts) = 1 /\ cs.pc \in {"reading", "done", "raised"} /\ cs.resps # <<>>)
         => ~(cs.think # None /\ cs.resps[1].status \in {400, 422})
    /\ (Len(cs.posts) = 1 /\ cs.resps # <<>> /\ cs.resps[1].status >= 400
        /\ cs.pc \in {"reading", "done", "raised"})
         => (cs.pc = "raised" /\ cs.error = "http")

\* A 400 whose body does not mention think was retried.
C9_Witness ==
    /\ Len(cs.posts) = 2
    /\ cs.resps[1].status = 400
    /\ ~cs.resps[1].mentions_think

\* The non-empty message.content values of the lines, in order.
RECURSIVE Fragments(_)
Fragments(lines) ==
    IF lines = <<>> THEN <<>>
    ELSE (IF Head(lines).kind = "object" /\ Head(lines).has_message
             /\ Head(lines).content # ""
          THEN <<Head(lines).content>> ELSE <<>>) \o Fragments(Tail(lines))

\* C10 (SpecStream): in stream mode the chunks yielded are exactly the
\* non-empty message.content fragments of the lines read, in arrival order;
\* no thinking fragment is among them; a blank or unparseable line does not
\* end the stream.
C10_YieldsContentFragments ==
    cs.stream =>
        /\ cs.yielded = Fragments(cs.received)
        /\ \A i \in 1..Len(cs.yielded) : cs.yielded[i] \in ContentTexts \ {""}
        /\ (cs.pc = "raised" /\ cs.received # <<>> /\ cs.error # "connection")
             => cs.received[Len(cs.received)].kind = "scalar"

\* A stream that ended after an unparseable line, a thinking-only line and a
\* content line.
C10_Witness ==
    /\ cs.pc = "done"
    /\ cs.stream
    /\ Len(cs.received) = 3
    /\ cs.received[1].kind = "garbage"
    /\ cs.received[2].kind = "object" /\ cs.received[2].content = ""
    /\ cs.received[2].thinking # ""
    /\ cs.received[3].content # ""
    /\ cs.yielded = <<cs.received[3].content>>

\* C11 (SpecAttach): after add_attachment(message, kind, filename, mime, b),
\* list_attachments_for_message_ids([message]) holds an attachment that the
\* call wrote and whose data is b, with object storage configured or not.
C11_RoundTrip ==
    procs.pc \in {"returned", "raised"} =>
        LET m == procs.args.message_id
            atts == list_attachments_for_message_ids(db, {m})[m]
        IN  \E i \in DOMAIN atts :
                /\ atts[i].id \notin {a.id : a \in procs.before}
                /\ atts[i].filename = procs.args.filename
                /\ atts[i].data = procs.args.data

InlineRow(a) == a.data # None /\ a.bucket = None /\ a.path = None
ExternalRow(a) == a.data = None /\ a.bucket # None /\ a.path # None

\* C12 (SpecAttach): every attachment row has exactly one storage location:
\* its bytes inline with no bucket and no path, or a bucket and a path with no
\* bytes; never both, never neither.
C12_OneLocation == \A a \in db.attachments : InlineRow(a) \/ ExternalRow(a)

C12_Witness ==
    /\ procs.written # {}
    /\ \E a \in db.attachments : a.id \in procs.written /\ a.data = ""
    /\ \E a \in db.attachments : ExternalRow(a)

\* C13 (SpecAttach): with object storage configured the upload fails, and then
\* add_attachment raises and the table is what it was before the call; no row
\* written by add_attachment carries a bucket or a path.
C13_UploadFailureLeavesNoRow ==
    /\ supabase_configured /\ procs.pc \in {"returned", "raised"} =>
           procs.pc = "raised" /\ db.attachments = procs.before
    /\ \A a \in db.attachments :
           a.id \in procs.written => a.bucket = None /\ a.path = None

C13_Witness ==
    /\ supabase_configured
    /\ procs.pc = "raised"
    /\ procs.args.data = "bytes-a"

\* The columns list_attachments_for_message_ids returns for a row.
ListedAs(a, data) ==
    [id |-> a.id, message_id |-> a.message_id, kind |-> a.kind,
     filename |-> a.filename, mime |-> a.mime, data |-> data,
     text_content |-> a.text_content]

\* C14 (SpecAttach): list_attachments_for_message_ids returns, for every
\* requested message, one entry per row of the message: a row whose fetch from
\* the object store failed with data None and its id, kind, filename, mime and
\* text_content as stored, every inline row with its bytes.
C14_FetchFailureDegrades ==
    procs.pc = "listed" =>
        \A mid \in procs.ids :
            LET rows == {a \in db.attachments : a.message_id = mid}
                got == procs.got[mid]
            IN  /\ Len(got) = Cardinality(rows)
                /\ \A a \in rows :
                       \E i \in DOMAIN got :
                           got[i] = ListedAs(a, IF InlineRow(a) THEN a.data ELSE None)

C14_Witness ==
    /\ procs.pc = "listed"
    /\ \E a \in db.attachments : a.message_id \in procs.ids /\ fetches_object(a)
    /\ \E a \in db.attachments : a.message_id \in procs.ids /\ InlineRow(a)

\* C15 (SpecAttach): without object storage configured no call of
\* add_attachment or list_attachments_for_message_ids reaches the object
\* store, and every row add_attachment wrote holds its bytes inline.
C15_BypassedWhenNotConfigured ==
    ~supabase_configured =>
        /\ ~procs.store_called
        /\ \A a \in db.attachments : a.id \in procs.written => InlineRow(a)

C15_Witness ==
    /\ ~supabase_configured
    /\ procs.pc = "listed"
    /\ procs.written # {}
    /\ \E a \in db.attachments : a.message_id \in procs.ids /\ ExternalRow(a)

\* C16 (SpecSession): get_session(token) on a session whose expires_at is
\* earlier than now returns not-found and leaves no row of the token, and no
\* row of a token once found expired ever exists again; on a session that is
\* not expired it returns the stored token, user_id and role and leaves the
\* sessions table, expires_at included, as it was.
C16_ExpiryAtRead ==
    /\ \A r \in db.sessions : r.token \notin procs.expired
    /\ procs.pc = "got" =>
           LET rows == {r \in procs.before : r.token = procs.token}
           IN  /\ rows = {} => procs.out = NoSession /\ db.sessions = procs.before
               /\ \A r \in rows :
                      IF fromisoformat(r.expires_at) < procs.at
                      THEN /\ procs.out = NoSession
                           /\ db.sessions = procs.before \ {r}
                      ELSE /\ procs.out = [token |-> r.token, user_id |-> r.user_id,
                                           role |-> r.role]
                           /\ db.sessions = procs.before

\* An expired lookup followed by a second lookup of the same token.
C16_Witness ==
    /\ procs.pc = "got"
    /\ procs.token \in procs.expired
    /\ procs.before = db.sessions
    /\ procs.out = NoSession
    /\ \E r \in db.sessions : fromisoformat(r.expires_at) = procs.at

\* C17 (SpecTouch): touch_conversation(id, title, model, system_prompt) leaves
\* the same set of conversation ids; the row of id gets updated_at = the time
\* of the call, each of title, model and system_prompt that was passed, and
\* keeps every other field (the ones not passed, base_prompt, the assignment
\* snapshot, user_id, role, created_at); every other row is as it was.
C17_TouchFrame ==
    procs.pc = "touched" =>
        /\ {c.id : c \in db.conversations} = {c.id : c \in procs.before}
        /\ \A b \in procs.before :
               IF b.id # procs.args.conversation_id
               THEN b \in db.conversations
               ELSE [b EXCEPT
                       !.updated_at = isoformat(procs.args.now),
                       !.title = IF procs.args.title = None THEN @
                                 ELSE procs.args.title,
                       !.model = IF procs.args.model = None THEN @
                                 ELSE procs.args.model,
                       !.system_prompt = IF procs.args.system_prompt = NullText THEN @
                                         ELSE procs.args.system_prompt]
                    \in db.conversations

\* A later call that passes only a model, on a row that an earlier call gave
\* a title and a system prompt.
C17_Witness ==
    /\ procs.pc = "touched"
    /\ procs.args.title = None /\ procs.args.model = "m2"
    /\ procs.args.system_prompt = NullText
    /\ procs.args.now = 2
    /\ \E c \in db.conversations :
           /\ c.id = procs.args.conversation_id
           /\ c.title = "T" /\ c.system_prompt = <<"S">> /\ c.model = "m2"
           /\ c.updated_at = isoformat(2) /\ c.created_at = isoformat(0)
    /\ \E c \in db.conversations :
           c.id # procs.args.conversation_id /\ c.updated_at = isoformat(1)

\* C18 (SpecStore): an init_db run that directly follows an init_db run leaves
\* the store as it is: the same assignments, settings, conversations, columns
\* and every other table.
C18_InitDbIdempotent ==
    [][procs.init_runs >= 1 /\ procs'.init_runs = 2 => db' = db]_vars

\* A second run after a first run that migrated an older database.
C18_Witness ==
    /\ procs.init_runs = 2
    /\ db.settings.global_system_prompt = <<"Q">>
    /\ db.settings.base_system_prompt = <<"Q">>
    /\ db.schema.columns = MigratedColumns
    /\ \E c \in db.conversations : c.assignment_name = "Assignment 2"

\* C20 (SpecStore): once init_db has returned the assignments table is never
\* empty, get_active_assignment returns a row of the table, and when the
\* setting names no row the row returned is the first assignment and the
\* setting is left naming it.
C20_ActiveAssignmentExists ==
    procs.inited =>
        /\ db.assignments # {}
        /\ get_active_assignment(db) \in db.assignments
        /\ get_assignment(db, get_setting(db, "active_assignment_id", NoId)) = {} =>
               /\ get_active_assignment(db) = list_assignments(db)[1]
               /\ get_setting(get_active_assignment_db(db), "active_assignment_id", NoId)
                      = list_assignments(db)[1].id

\* The setting names no row and a second assignment exists.
C20_Witness ==
    /\ procs.inited
    /\ get_assignment(db, get_setting(db, "active_assignment_id", NoId)) = {}
    /\ Cardinality(db.assignments) = 2

\* C19 (SpecBoot): when two init_db executions on an empty database have both
\* ended, both have returned (none raised), the assignments table holds
\* exactly one row, "Assignment 1", and active_assignment_id is its id.
C19_ConcurrentInitDb ==
    (procs.found_empty /\ \A p \in {1, 2} : procs.boot[p].pc \in {"done", "raised"}) =>
        /\ \A p \in {1, 2} : procs.boot[p].pc = "done"
        /\ Cardinality(db.assignments) = 1
        /\ \A a \in db.assignments :
               /\ a.name = "Assignment 1"
               /\ get_setting(db, "active_assignment_id", NoId) = a.id

\* C21 (SpecStore): an init_db run, whose backfill is the only statement that
\* writes conversations, keeps every conversation row and in each row the
\* title, model, system_prompt, base_prompt, owner and timestamps; it keeps
\* assignment_id unless it was NULL, and assignment_name and assignment_prompt
\* unless they were NULL or ''.
C21_BackfillOnlyFills ==
    [][procs'.init_runs >= 1 =>
          /\ {c.id : c \in db'.conversations} = {c.id : c \in db.conversations}
          /\ \A c \in db.conversations :
                 \E n \in db'.conversations :
                     /\ n.id = c.id
                     /\ [n EXCEPT !.assignment_id = c.assignment_id,
                                  !.assignment_name = c.assignment_name,
                                  !.assignment_prompt = c.assignment_prompt] = c
                     /\ c.assignment_id # NoId => n.assignment_id = c.assignment_id
                     /\ c.assignment_name \notin {None, ""} =>
                            n.assignment_name = c.assignment_name
                     /\ c.assignment_prompt \notin {NullText, <<>>} =>
                            n.assignment_prompt = c.assignment_prompt]_vars

\* After the first run on an older database: the conversation that had no
\* assignment has one, and its other columns are what they were.
C21_Witness ==
    /\ procs.init_runs = 1
    /\ \E c \in db.conversations :
           /\ c.assignment_id = 1 /\ c.assignment_name = "Assignment 2"
           /\ c.assignment_prompt = <<>>
           /\ c.base_prompt = NullText /\ c.system_prompt = <<"S">> /\ c.title = "T"

PayloadBuilt == run.pc \in {"send_stream", "regen_stream"}

\* The conversation record a payload build reads: the one the session loaded
\* with the thread (or stored when it created it), else the stored row.
RecordOf(conversation_id) ==
    IF ss.conversation_meta # {} THEN ss.conversation_meta
    ELSE get_conversation(db, conversation_id)

HasText(t) == t # NullText /\ Strip(t) # <<>>

\* C22 (SpecPayload): every payload handed to chat_stream (send path and Save &
\* Regenerate path) is one system turn followed by one turn per message of the
\* session's history, in order, with the message's role and text and no second
\* system turn; the system turn is built from the conversation record's
\* base_prompt and assignment_prompt when one of them holds text, else it is
\* the record's system_prompt when that holds text, else it is built from the
\* current base prompt setting and the active assignment's prompt.
C22_SystemTurnByPreference ==
    PayloadBuilt =>
        LET p == run.payload
            conv == RecordOf(run.conv_id)
            global == _combined_prompt(get_base_system_prompt(db, DEFAULT_BASE_PROMPT),
                                       OrEmpty(get_active_assignment(db).prompt))
        IN  /\ Len(p) = Len(ss.messages) + 1
            /\ p[1].role = "system"
            /\ \A i \in 2..Len(p) :
                   /\ p[i].role = ss.messages[i - 1].role
                   /\ p[i].role \in {"user", "assistant"}
                   /\ Head(p[i].content) = ss.messages[i - 1].content
            /\ \A c \in conv :
                   /\ c.id = run.conv_id
                   /\ p[1].content =
                        <<IF HasText(c.base_prompt) \/ HasText(c.assignment_prompt)
                          THEN _combined_prompt(c.base_prompt, c.assignment_prompt)
                          ELSE IF HasText(c.system_prompt) THEN Strip(c.system_prompt)
                          ELSE global>>
            /\ conv = {} => p[1].content = <<global>>

\* A payload of two or more history turns was built for a conversation whose
\* record holds both a snapshot and a system_prompt that reads differently.
C22_Witness ==
    /\ PayloadBuilt
    /\ Len(run.payload) >= 3
    /\ \E c \in RecordOf(run.conv_id) :
           /\ HasText(c.assignment_prompt)
           /\ HasText(c.system_prompt)
           /\ Strip(c.system_prompt) # _combined_prompt(c.base_prompt, c.assignment_prompt)
           /\ run.payload[1].content = <<_combined_prompt(c.base_prompt, c.assignment_prompt)>>

\* C23 (SpecPayload): every payload built for a conversation has as its system
\* turn the prompts create_conversation stored for it: strip(base_prompt), or
\* the hardcoded default when that is empty, followed by two newlines and
\* strip(assignment_prompt) only when the assignment prompt holds text; so a
\* conversation created with base prompt P and an empty assignment prompt has
\* system turn P, and one created after the assignment prompt became Q has
\* system turn P, two newlines, Q.
C23_SystemTurnOfCreation ==
    PayloadBuilt =>
        \A c \in hist.snap :
            c.id = run.conv_id =>
                run.payload[1].content =
                    <<(IF Strip(c.base_prompt) = <<>> THEN DEFAULT_BASE_PROMPT
                       ELSE Strip(c.base_prompt))
                      \o (IF Strip(c.assignment_prompt) = <<>> THEN <<>>
                          ELSE <<"\n", "\n">> \o Strip(c.assignment_prompt))>>

\* The number of user turns of msgs from position i to the end.
UserTurnsFrom(msgs, i) == Cardinality({j \in i..Len(msgs) : msgs[j].role = "user"})

\* C24 (SpecPayload): in every payload built, a user turn's content is its text
\* followed by the extracted text of its files exactly when it is one of the
\* last INCLUDE_FILE_TEXT_LAST_N_USER_MSGS user turns of the session's history
\* at that moment, and otherwise its text alone; it carries its images exactly
\* when it is one of the last INCLUDE_IMAGES_LAST_N_USER_MSGS user turns;
\* assistant turns carry their text alone; and on the Save & Regenerate path
\* that history is the conversation as stored after the truncation, with no
\* message later than the edit target.
C24_WindowsFromCurrentHistory ==
    PayloadBuilt =>
        LET msgs == ss.messages
            stored == get_conversation_messages(db, run.conv_id)
        IN  /\ Len(run.payload) = Len(msgs) + 1
            /\ \A i \in 1..Len(msgs) :
                   LET turn == run.payload[i + 1]
                       user == msgs[i].role = "user"
                   IN  /\ turn.content =
                            <<msgs[i].content>>
                            \o (IF user /\ UserTurnsFrom(msgs, i) <= INCLUDE_FILE_TEXT_LAST_N_USER_MSGS
                                THEN FileTexts(msgs[i].attachments) ELSE <<>>)
                       /\ turn.images =
                            (IF user /\ UserTurnsFrom(msgs, i) <= INCLUDE_IMAGES_LAST_N_USER_MSGS
                             THEN ImagesB64(msgs[i].attachments) ELSE <<>>)
            /\ run.pc = "regen_stream" =>
                   /\ [i \in 1..Len(msgs) |-> msgs[i].id] = [i \in 1..Len(stored) |-> stored[i].id]
                   /\ \A i \in 1..Len(msgs) : msgs[i].id <= ss.editing.message_id

\* Save & Regenerate on the second of four user turns that all hold an image
\* and a text file: the payload has the two remaining turns, both with their
\* file text (the first was outside the window of the four), and only the
\* last with its image.
C24_Witness ==
    /\ run.pc = "regen_stream"
    /\ procs = <<<<"user", "user", "user", "user">>>>
    /\ Len(run.payload) = 3
    /\ Len(run.payload[2].content) = 2
    /\ Len(run.payload[3].content) = 2
    /\ run.payload[2].images = <<>>
    /\ run.payload[3].images # <<>>
    /\ Cardinality(db.attachments) = 4

\* C25 (SpecChat): when the model call of a send or of a Save & Regenerate has
\* ended, with the reply stored or with an error shown, the script run is over
\* (no stream is open) and the session holds no edit target.
C25_StreamResolvesToIdle ==
    (run.pc = "done" /\ run.outcome \in {"send_ok", "send_failed", "regen_ok", "regen_failed"})
        => ss.editing = NoEdit

C27_EditingAdminOnly ==
    /\ [][((run.pc = "idle" /\ run'.pc = "regen_stream")
            \/ (\E m \in db.messages : m \notin db'.messages))
           => (ss.role = "admin" /\ ss.editing # NoEdit)]_vars
    /\ [](ss.editing # NoEdit =>
             \E m \in db.messages : m.id = ss.editing.message_id /\ m.role = "user")

\* An admin's Save & Regenerate has rewritten its target, the user message the
\* conversation now ends with.
C27_Witness ==
    /\ run.pc = "regen_stream"
    /\ ss.role = "admin"
    /\ \E m \in db.messages :
           /\ m.id = ss.editing.message_id
           /\ m.role = "user"
           /\ m.content = ss.editing.draft
           /\ m.content # ss.editing.original
    /\ hist.edit.k = 1
    /\ Len(ss.messages) = 1
    /\ ~\E m \in db.messages : m.role = "assistant"

ConversationIds(d) == {c.id : c \in d.conversations}

\* C28 (SpecChat): the set of conversation rows grows only in the step that
\* handles a chat submission made while the session has no active
\* conversation, and then by exactly one row, which that submission's user
\* message, stored in the same step after it, is the first and only message
\* of; a submission with an active conversation, picking a thread or "New
\* conversation", and every later step of the run create none.
C28_ConversationCreatedLazily ==
    [][/\ ConversationIds(db) \subseteq ConversationIds(db')
       /\ ConversationIds(db') # ConversationIds(db) =>
              /\ run.pc = "idle"
              /\ run'.pc = "attach"
              /\ ss.conversation_id = NoId
              /\ ConversationIds(db') = ConversationIds(db) \cup {run'.conv_id}
              /\ ss'.conversation_id = run'.conv_id
              /\ {m.id : m \in {x \in db'.messages : x.conversation_id = run'.conv_id}}
                     = {run'.user_msg_id}
       /\ (run.pc = "idle" /\ run'.pc = "attach") =>
              /\ run'.conv_id \in ConversationIds(db')
              /\ ss.conversation_id # NoId =>
                     (ConversationIds(db') = ConversationIds(db)
                      /\ run'.conv_id = ss.conversation_id)
              /\ ss.conversation_id = NoId => run'.conv_id \notin ConversationIds(db)]_vars

\* After "New conversation" was picked with one conversation stored, a message
\* was submitted: the second conversation exists and holds that message alone.
C28_Witness ==
    /\ run.pc = "attach"
    /\ Cardinality(db.conversations) = 2
    /\ \E m \in db.messages : m.conversation_id # run.conv_id
    /\ {m.id : m \in {x \in db.messages : x.conversation_id = run.conv_id}} = {run.user_msg_id}
    /\ \A c \in db.conversations : c.user_id = ss.user_id

Streaming == {"send_stream", "regen_stream"}

MessagesOf(d, c) == {m \in d.messages : m.conversation_id = c}

\* C30 (SpecChat): for every conversation, get_conversation_messages returns
\* exactly its stored messages with strictly increasing ids; and a step that
\* stores a message under an id no row held gives it an id greater than that
\* of every message the conversation held before the step, also when ids above
\* an edit target were deleted before.
C30_MessagesOrderedById ==
    /\ [](\A c \in ConversationIds(db) :
              LET q == get_conversation_messages(db, c)
              IN  /\ {q[i] : i \in 1..Len(q)} = MessagesOf(db, c)
                  /\ \A i, j \in 1..Len(q) : i < j => q[i].id < q[j].id)
    /\ [][\A m \in db'.messages :
              m.id \notin {x.id : x \in db.messages} =>
                  \A x \in MessagesOf(db, m.conversation_id) : x.id < m.id]_vars

\* A regenerated reply was stored after the reply it replaces (id 2) had been
\* deleted: the conversation holds the edited message and the new reply.
C30_Witness ==
    /\ run.pc = "done"
    /\ run.outcome = "regen_ok"
    /\ {m.id : m \in MessagesOf(db, run.conv_id)} = {1, 3}
    /\ Cardinality(db.messages) = 2

\* sub occurs in text, letters compared without case.
ContainsNoCase(text, sub) ==
    \E i \in 1..(Len(text) - Len(sub) + 1) :
        \A k \in 1..Len(sub) : lower(text[i + k - 1]) = lower(sub[k])

\* C31 (SpecList): list_conversations_admin returns conversations that match
\* every filter given (the user filter occurs in the user id, letters compared
\* without case; the role is the role filter; the model is the model filter),
\* each once, by non-increasing updated_at, at most limit of them, and all of
\* the matching ones when there are no more than limit.
C31_ListAdminExact ==
    procs.pc = "returned" =>
        LET user_filter == procs.args[1]
            role_filter == procs.args[2]
            model_filter == procs.args[3]
            limit == procs.args[4]
            out == procs.out
            match == {c \in db.conversations :
                        /\ (user_filter \notin {NullText, <<>>})
                             => ContainsNoCase(c.user_id, user_filter)
                        /\ (role_filter \notin {None, ""}) => c.role = role_filter
                        /\ (model_filter \notin {None, ""}) => c.model = model_filter}
        IN  /\ \A i \in 1..Len(out) : out[i] \in match
            /\ \A i, j \in 1..Len(out) : i < j =>
                   /\ out[i] # out[j]
                   /\ fromisoformat(out[i].updated_at) >= fromisoformat(out[j].updated_at)
            /\ Len(out) = (IF Cardinality(match) < limit THEN Cardinality(match) ELSE limit)
            /\ \A c \in match : \A i \in 1..Len(out) :
                   (\A k \in 1..Len(out) : out[k] # c) =>
                       fromisoformat(c.updated_at) <= fromisoformat(out[i].updated_at)

\* C32 (SpecUsers): a step changes the users table only when it is the
\* bootstrap form submitted while no admin row exists and nobody is signed in,
\* or a step of a session whose role is admin; and no step removes a user id
\* from the table.
C32_UsersWrittenByBootstrapOrAdmin ==
    [][/\ db'.users # db.users =>
             \/ ss.user_id = None /\ ~any_admin_exists(db) /\ procs'[1] = "bootstrap"
             \/ ss.role = "admin"
       /\ \A u \in db.users : \E v \in db'.users : v.user_id = u.user_id]_vars

\* A student who was given an account has signed in and sent a message, and
\* the table holds the student's row and an admin's.
C32_Witness ==
    /\ ss.role = "student"
    /\ \E m \in db.messages : \E c \in db.conversations :
           c.id = m.conversation_id /\ c.user_id = ss.user_id
    /\ \E u \in db.users : u.user_id = ss.user_id /\ u.role = "student"
    /\ any_admin_exists(db)

\* C34 (SpecUsers): when the bootstrap form or the admin's "Save user" is
\* submitted with an empty user id or an empty password, the step leaves the
\* users table and the sessions table as they were.
C34_EmptyUserRequestRejected ==
    [][(/\ run.pc = "idle"
        /\ run'.pc = "done"
        /\ procs'[1] \in {"bootstrap", "save_user"}
        /\ (procs'[2] = "" \/ procs'[3] = ""))
       => (db'.users = db.users /\ db'.sessions = db.sessions)]_vars

\* The admin has pressed "Save user" with a user id and no password.
C34_Witness ==
    /\ run.pc = "done"
    /\ run.outcome = "user_rejected"
    /\ procs[1] = "save_user"
    /\ procs[2] # ""
    /\ procs[3] = ""
    /\ db.users # {}

\* C33 (SpecLoad): a call of _load_conversation_into_state with an id that no
\* conversation row has returns with no active conversation id, an empty
\* history and empty metadata in the session state, and leaves the store as
\* it was.
C33_UnknownConversationClearsState ==
    [][(/\ run.pc = "idle"
        /\ run'.outcome = "loaded"
        /\ get_conversation(db, run'.conv_id) = {})
       => (/\ db' = db
           /\ ss'.conversation_id = NoId
           /\ ss'.messages = <<>>
           /\ ss'.conversation_meta = {})]_vars

\* An unknown id was loaded while the store holds a conversation with
\* messages.
C33_Witness ==
    /\ run.outcome = "loaded"
    /\ get_conversation(db, run.conv_id) = {}
    /\ db.messages # {}
    /\ ss.messages = <<>>
    /\ ss.conversation_id = NoId

\* C35 (SpecChat): the step of Save & Regenerate that updates the target and
\* truncates leaves every message that is not in the conversation holding the
\* edit target, and every attachment of such a message, as it was, whatever
\* was picked, sent or signed in between Edit and Save.
C35_EditStaysInTargetConversation ==
    [][(run.pc = "idle" /\ run'.pc = "regen_stream")
       => \A m \in db.messages :
              m.conversation_id # hist'.edit.conv
              => /\ m \in db'.messages
                 /\ \A a \in db.attachments :
                        a.message_id = m.id => a \in db'.attachments]_vars

\* C36 (SpecSend): whenever create_conversation or add_message has returned
\* to a session, the id it returned is the id of the row that the call's own
\* INSERT created, however the statements of the other session fall between.
C36_ReturnedIdIsOwnRow ==
    \A s \in SendSessions :
        /\ procs[s].pc \in {"conv_id", "msg_inserted", "msg_id", "sent"}
           => procs[s].conv_id = procs[s].own_conv
        /\ procs[s].pc \in {"msg_id", "sent"}
           => procs[s].user_msg_id = procs[s].own_msg

\* C37 (SpecSend): the message a session's send inserted lies in a
\* conversation whose user_id is the session's user, and the attachment the
\* send inserted names the user message of that same send, however the
\* statements of the other session fall between.
C37_SendStaysWithSender ==
    \A s \in SendSessions :
        /\ \A m \in db.messages :
               (procs[s].own_msg # NoId /\ m.id = procs[s].own_msg)
               => \E c \in db.conversations :
                      c.id = m.conversation_id /\ c.user_id = SendUser(s)
        /\ \A a \in db.attachments :
               (procs[s].own_att # NoId /\ a.id = procs[s].own_att)
               => a.message_id = procs[s].own_msg

AttachmentsOf(d, message_id) == {a \in d.attachments : a.message_id = message_id}

SnapshotFields(c) ==
    <<c.system_prompt, c.base_prompt, c.assignment_id, c.assignment_name,
      c.assignment_prompt>>

C39_MessageIdNeverReused ==
    procs.added # NoId => procs.added \notin procs.deleted

====
